---- MODULE Spec2Model ----
(***************************************************************************)
(* Model of the asynchronous job orchestration layer of the Vertex API     *)
(* client: the queued-job poller (client/helpers/queued-jobs.ts), the      *)
(* backoff policy (client/helpers/polling.ts) and the depth-ordered batch  *)
(* scene-item pipeline (client/helpers/scenes.ts).                         *)
(***************************************************************************)
EXTENDS Integers, Sequences, FiniteSets, TLC

(***************************************************************************)
(* Bounds of the model.                                                    *)
(***************************************************************************)
\* polling.maxAttempts is drawn from 0..MaxMaxAttempts
MaxMaxAttempts == 3
\* largest attempt threshold of a modelled backoff table
MaxBackoffKey == 2

(***************************************************************************)
(* Program constants.                                                      *)
(***************************************************************************)
ClientErrorId == "node-client-error"
ClientErrorStatus == 503
NotFoundStatus == 404
OkStatus == 200
ServerErrorStatus == 500
\* The timer poll() starts with each fetch, and the default poll interval.
ConnectTimeoutMs == 8000
PollIntervalMs == 5000
\* intervalMs of defaultPolling, the polling of the pipeline's batch polls.
BatchPollIntervalMs == 200

\* The `undefined` of a Record<number, number | undefined> entry.
Undefined == -1

(***************************************************************************)
(* Payloads.  A response body is a JSON object of which the code inspects  *)
(* `data` (its type and attributes.status) and `errors`.  `errors` is a    *)
(* Set<ApiError>, iterated in insertion order: a sequence; the empty       *)
(* sequence stands for both a missing and an empty `errors`.               *)
(***************************************************************************)
JobStatuses == {"queued", "executing", "complete", "error"}

NoData == [defined |-> FALSE, queuedType |-> FALSE, status |-> "none"]

QueuedJobBody(st) ==
    [data |-> [defined |-> TRUE, queuedType |-> TRUE, status |-> st],
     errors |-> << >>]

\* The resource a resolved queued job redirects to (type does not start
\* with 'queued-').
ResourceBody ==
    [data |-> [defined |-> TRUE, queuedType |-> FALSE, status |-> "none"],
     errors |-> << >>]

ApiErrorOf(id, status, code) ==
    [id |-> id, statusDefined |-> TRUE, codeDefined |-> TRUE,
     status |-> status, code |-> code]

\* A Failure reported by the server.
ServerFailureBody ==
    [data |-> NoData,
     errors |-> << ApiErrorOf("server-error", "404", "NotFound") >>]

\* The Failure poll() synthesizes when the fetch throws without a
\* server-reported failure.
ClientFailureBody ==
    [data |-> NoData,
     errors |-> << ApiErrorOf(ClientErrorId, "503", "ServiceUnavailable") >>]

(***************************************************************************)
(* utils.ts predicates.                                                    *)
(***************************************************************************)
head(items) == items[1]

isApiError(e) == e.statusDefined /\ e.codeDefined

isFailure(obj) ==
    IF Len(obj.errors) = 0 THEN FALSE ELSE isApiError(head(obj.errors))

isQueuedJob(obj) == obj.data.defined /\ obj.data.queuedType

(***************************************************************************)
(* queued-jobs.ts predicates.                                              *)
(***************************************************************************)
allowed404(allow, status) == allow /\ status = NotFoundStatus

isStatusError(job) == job.data.status = "error"

validJobNoErrorCheck(r) == isQueuedJob(r)

validJobInverted(r) == isQueuedJob(r) /\ isStatusError(r)

validJob(r) == isQueuedJob(r) /\ ~isStatusError(r)

isQueuedJobError(obj) == isQueuedJob(obj) /\ isStatusError(obj)

isClientErrorNever(res) == FALSE

isClientError(res) ==
    isFailure(res) /\ head(res.errors).id = ClientErrorId

isPollError(r) == isQueuedJobError(r) \/ isFailure(r)

(***************************************************************************)
(* polling.ts: the backoff policy.  A table is a function from attempt     *)
(* thresholds to a delay or Undefined.                                     *)
(***************************************************************************)
RECURSIVE DescendingSeq(_)
DescendingSeq(S) ==
    IF S = {} THEN << >>
    ELSE LET m == CHOOSE x \in S : \A y \in S : y <= x
         IN  << m >> \o DescendingSeq(S \ {m})

\* Object.keys lists integer keys in ascending order; reverse() turns them
\* into descending order.
getBackoffKeys(backoff) == DescendingSeq(DOMAIN backoff)

\* Array.prototype.find: the first element satisfying attempt > key, or
\* Undefined.
RECURSIVE findKey(_, _)
RECURSIVE findKeyInclusive(_, _)
findKeyInclusive(keys, attempt) ==
    IF Len(keys) = 0 THEN Undefined
    ELSE IF attempt >= Head(keys) THEN Head(keys)
    ELSE findKeyInclusive(Tail(keys), attempt)

RECURSIVE findKeyAbove(_, _)
findKeyAbove(keys, attempt) ==
    IF Len(keys) = 0 THEN Undefined
    ELSE IF attempt < Head(keys) THEN Head(keys)
    ELSE findKeyAbove(Tail(keys), attempt)

findKey(keys, attempt) ==
    IF Len(keys) = 0 THEN Undefined
    ELSE IF attempt > Head(keys) THEN Head(keys)
    ELSE findKey(Tail(keys), attempt)

Lookup(backoff, key) ==
    IF key \in DOMAIN backoff THEN backoff[key] ELSE Undefined

getBackoffForAttempt(attempt, polling) ==
    IF polling.hasBackoff
    THEN LET keys     == getBackoffKeys(polling.backoff)
             foundKey == findKey(keys, attempt)
             v        == Lookup(polling.backoff,
                                IF foundKey = Undefined THEN 0 ELSE foundKey)
         IN  IF v = Undefined THEN 0 ELSE v
    ELSE 0

getPollingDelay(attempt, polling) ==
    polling.intervalMs + getBackoffForAttempt(attempt, polling)

NoTable == [k \in {} |-> 0]

\* 1000 of maxPollDurationSeconds * 1000.
MsPerSecond == 1000

\* The while loop of getMaxAttempts: one attempt, with its interval and
\* backoff, is taken off the remaining time until none remains.
RECURSIVE maxAttemptsLoop(_, _, _)
RECURSIVE maxAttemptsLoopInclusive(_, _, _)
maxAttemptsLoopInclusive(remainingTimeMs, attempt, args) ==
    IF remainingTimeMs >= 0
    THEN maxAttemptsLoopInclusive(
             remainingTimeMs
                 - (args.intervalMs + getBackoffForAttempt(attempt + 1, args)),
             attempt + 1, args)
    ELSE attempt

maxAttemptsLoop(remainingTimeMs, attempt, args) ==
    IF remainingTimeMs > 0
    THEN maxAttemptsLoop(
             remainingTimeMs
                 - (args.intervalMs + getBackoffForAttempt(attempt + 1, args)),
             attempt + 1, args)
    ELSE attempt

\* Math.max(1, Math.floor(x / y)) for non-negative integers.
MaxOneFloorDiv(x, y) == IF x \div y > 1 THEN x \div y ELSE 1

getMaxAttempts(args) ==
    IF args.hasBackoff
    THEN maxAttemptsLoop(args.maxPollDurationSeconds * MsPerSecond, 0, args)
    ELSE MaxOneFloorDiv(args.maxPollDurationSeconds, args.intervalMs)

getPollingConfiguration(args) ==
    [intervalMs |-> args.intervalMs, maxAttempts |-> getMaxAttempts(args),
     hasBackoff |-> args.hasBackoff, backoff |-> args.backoff]

\* polling.ts DefaultPollIntervalMs and DefaultBackoffMs.
DefaultPollIntervalMs == 500

DefaultBackoffMs ==
    (0 :> DefaultPollIntervalMs) @@ (1 :> 500) @@ (10 :> 2000) @@ (30 :> 3000)
        @@ (50 :> 5000) @@ (300 :> 10000) @@ (1000 :> 20000)

\* The longest maxPollDurationSeconds getPollingConfiguration is given.
MaxPollDurationSeconds == 2

\* The intervalMs and the table entries getPollingConfiguration is given.
IntervalsMs == {200, 500}

BackoffDelaysMs == {Undefined, 100, 300}

\* Every table over the thresholds 0..MaxBackoffKey, {} included.
AllBackoffTables ==
    UNION { [K -> BackoffDelaysMs] : K \in SUBSET (0..MaxBackoffKey) }

BackoffTables ==
    { (0 :> 1) @@ (1 :> 1) @@ (MaxBackoffKey :> 3),
      (1 :> 2) @@ (MaxBackoffKey :> Undefined) }

Pollings ==
    { [intervalMs |-> 1, maxAttempts |-> m, hasBackoff |-> FALSE,
       backoff |-> NoTable] : m \in 0..MaxMaxAttempts }
    \cup
    { [intervalMs |-> 2, maxAttempts |-> m, hasBackoff |-> TRUE,
       backoff |-> t] : m \in 0..MaxMaxAttempts, t \in BackoffTables }

(***************************************************************************)
(* What one call of getQueuedJob can do: resolve with a response           *)
(* {status, data}, or reject with an error that may carry `vertexError`    *)
(* ({status, res}, attached by the client's response interceptor when the  *)
(* body is a Failure) or nothing (network error, connect timeout).         *)
(***************************************************************************)
Returns(status, body) ==
    [kind |-> "return", status |-> status, data |-> body,
     hasVertexError |-> FALSE, hasRes |-> FALSE]

ThrowsVertexError(status, body, hasRes) ==
    [kind |-> "throw", status |-> status, data |-> body,
     hasVertexError |-> TRUE, hasRes |-> hasRes]

ThrowsPlain ==
    [kind |-> "throw", status |-> 0, data |-> ResourceBody,
     hasVertexError |-> FALSE, hasRes |-> FALSE]

FetchOutcomes ==
    { Returns(OkStatus, QueuedJobBody(st)) : st \in JobStatuses }
    \cup { Returns(OkStatus, ResourceBody),
           Returns(NotFoundStatus, QueuedJobBody("error")),
           Returns(NotFoundStatus, ServerFailureBody),
           ThrowsVertexError(NotFoundStatus, ServerFailureBody, TRUE),
           ThrowsVertexError(ServerErrorStatus, ServerFailureBody, TRUE),
           ThrowsVertexError(ServerErrorStatus, ServerFailureBody, FALSE),
           ThrowsPlain }

VARIABLES
    polling,    \* req.polling: {intervalMs, maxAttempts, backoff?}
    allow404,   \* req.allow404
    attempts,   \* `attempts` of pollQueuedJob
    pollRes,    \* `pollRes` of pollQueuedJob: {status, res}
    ppc,        \* position of pollQueuedJob: fetch, delay, done, rejected
    fetchLog,   \* what each getQueuedJob call did, in call order
    waits,      \* the delay() calls made: the attempt they precede and ms
    forwardsToken,  \* getQueuedJob passes its cancelToken to the request
    timer,      \* the connect timer of the running poll(): off, armed, fired
    timeouts,   \* the attempts whose request the connect timer cancelled
    \* createSceneAndSceneItems
    reqs,               \* createSceneItemReqs
    failFast,           \* failFast
    parallelism,        \* parallelism
    returnQueued,       \* returnQueued
    readyMaxAttempts,   \* polling.maxAttempts of pollSceneReady
    spc,                \* position of createSceneAndSceneItems
    layers,             \* depthSortedItems
    depth,              \* depth
    retrying,           \* TRUE inside the placeholder createSceneItemBatch
    batches,            \* the chunks of the running createSceneItemBatch
    errors,             \* `errors` of createSceneItemBatch (chunk numbers)
    retryErrors,        \* retryErrors (positions in resultItemErrors)
    resultQueuedOps,    \* resultQueuedOps
    resultBatchErrors,  \* resultBatchErrors
    resultItemErrors,   \* resultItemErrors
    scenePolls,         \* `attempts` of pollSceneReady
    sceneResult,        \* sceneResult: "undefined" or "scene"
    calls,              \* the client calls made and settled, in order
    served,             \* what the platform received and answered, in order
    \* polling.ts
    pollingArgs,        \* the argument of getPollingConfiguration
    pollingConf,        \* the Polling it returned, once called
    delays,             \* getPollingDelay of attempts 1, 2, ... in order
    \* utils.ts
    arrA,               \* the argument a of arrayEq
    arrB,               \* the argument b of arrayEq
    arrRes              \* what arrayEq(a, b) returned, once called

pvars == << polling, allow404, attempts, pollRes, ppc, fetchLog, waits,
            forwardsToken, timer, timeouts >>

svars == << reqs, failFast, parallelism, returnQueued, readyMaxAttempts,
            spc, layers, depth, retrying,
            batches, errors, retryErrors, resultQueuedOps, resultBatchErrors,
            resultItemErrors, scenePolls, sceneResult, calls, served >>

bvars == << pollingArgs, pollingConf, delays >>

avars == << arrA, arrB, arrRes >>

vars == << pvars, svars, bvars, avars >>

\* No Polling has been built.
NoConf == [intervalMs |-> Undefined, maxAttempts |-> Undefined,
           hasBackoff |-> FALSE, backoff |-> << >>]

\* polling.ts is not in use.
BackoffIdle ==
    /\ pollingArgs = NoConf
    /\ pollingConf = NoConf
    /\ delays = << >>

\* A value handed to arrayEq: an array of numbers, or something else
\* (a number, whose `length` is undefined, so items is empty; an array-like
\* object with indexed elements and a length).
NoValue == [isArray |-> FALSE, items |-> << >>]

\* arrayEq is not in use.
ArrayIdle ==
    /\ arrA = NoValue
    /\ arrB = NoValue
    /\ arrRes = "none"

\* The pipeline is not running.
SceneIdle ==
    /\ reqs = << >>
    /\ failFast = FALSE
    /\ parallelism = 1
    /\ returnQueued = FALSE
    /\ readyMaxAttempts = 0
    /\ spc = "idle"
    /\ layers = << >>
    /\ depth = 0
    /\ retrying = FALSE
    /\ batches = << >>
    /\ errors = << >>
    /\ retryErrors = << >>
    /\ resultQueuedOps = << >>
    /\ resultBatchErrors = << >>
    /\ resultItemErrors = << >>
    /\ scenePolls = 0
    /\ sceneResult = "undefined"
    /\ calls = << >>
    /\ served = << >>

JobId == "queued-job-1"

NoPollRes == [rejected |-> FALSE, status |-> 0, res |-> ResourceBody]

(***************************************************************************)
(* pollQueuedJob.poll: one fetch attempt, never rejecting: a thrown error  *)
(* becomes the server's Failure when the error carries one, and the        *)
(* synthesized client Failure otherwise.                                   *)
(***************************************************************************)
pollRethrows(o) ==
    IF o.kind = "return"
    THEN [rejected |-> FALSE, status |-> o.status, res |-> o.data]
    ELSE IF o.hasVertexError /\ o.hasRes
    THEN [rejected |-> FALSE, status |-> o.status, res |-> o.data]
    ELSE [rejected |-> TRUE, status |-> 0, res |-> ResourceBody]

pollPlainStatus(o) ==
    IF o.kind = "return"
    THEN [rejected |-> FALSE, status |-> o.status, res |-> o.data]
    ELSE IF o.hasVertexError /\ o.hasRes
    THEN [rejected |-> FALSE, status |-> o.status, res |-> o.data]
    ELSE [rejected |-> FALSE, status |-> ClientErrorStatus,
          res |-> ServerFailureBody]

poll(o) ==
    IF o.kind = "return"
    THEN [rejected |-> FALSE, status |-> o.status, res |-> o.data]
    ELSE IF o.hasVertexError /\ o.hasRes
    THEN [rejected |-> FALSE, status |-> o.status, res |-> o.data]
    ELSE [rejected |-> FALSE, status |-> ClientErrorStatus,
          res |-> ClientFailureBody]

\* The condition of the while loop of pollQueuedJob.
KeepPollingStrict(allow, r, n, maxAttempts) ==
    /\ \/ allowed404(allow, r.status)
       \/ validJob(r.res)
       \/ isClientError(r.res)
    /\ n < maxAttempts

KeepPollingNo404(allow, r, n, maxAttempts) ==
    /\ \/ validJob(r.res)
       \/ isClientError(r.res)
    /\ n <= maxAttempts

KeepPollingOneMore(allow, r, n, maxAttempts) ==
    /\ \/ allowed404(allow, r.status)
       \/ validJob(r.res)
       \/ isClientError(r.res)
    /\ n <= maxAttempts + 1

KeepPolling(allow, r, n, maxAttempts) ==
    /\ \/ allowed404(allow, r.status)
       \/ validJob(r.res)
       \/ isClientError(r.res)
    /\ n <= maxAttempts

\* The argument of the delay() between two attempts.
PollDelayMs(p, attempt) == p.intervalMs

\* pollQueuedJob has been called and the first fetch is in flight.
PollStarted ==
    /\ attempts = 1
    /\ pollRes = NoPollRes
    /\ ppc = "fetch"
    /\ fetchLog = << >>
    /\ waits = << >>
    /\ timer = "armed"
    /\ timeouts = {}
    /\ SceneIdle
    /\ BackoffIdle
    /\ ArrayIdle

PollInit ==
    /\ polling \in Pollings
    /\ allow404 \in BOOLEAN
    /\ forwardsToken \in BOOLEAN
    /\ PollStarted

\* cancelSrc.cancel() rejects the request only if getQueuedJob handed the
\* token to it.
cancelRejectsNever(forwards) == FALSE

cancelRejects(forwards) == forwards

\* The awaited getQueuedJob settles with outcome o; poll() turns it into
\* pollRes; the loop condition is evaluated and either the next delay
\* starts or pollQueuedJob returns.  The timer of the attempt is cleared,
\* or left to fire on a token no request listens to any more.
AttemptEnds(o) ==
    /\ timer' = "off"
    /\ fetchLog' = Append(fetchLog, o)
    /\ LET r == poll(o) IN
       IF r.rejected
       THEN /\ ppc' = "rejected"
            /\ UNCHANGED << pollRes, attempts, waits >>
       ELSE /\ pollRes' = r
            /\ IF KeepPolling(allow404, r, attempts, polling.maxAttempts)
               THEN /\ attempts' = attempts + 1
                    /\ waits' = Append(waits,
                           [attempt |-> attempts + 1,
                            ms |-> PollDelayMs(polling, attempts + 1)])
                    /\ ppc' = "delay"
               ELSE /\ ppc' = "done"
                    /\ UNCHANGED << attempts, waits >>
    /\ UNCHANGED << polling, allow404, forwardsToken >>
    /\ UNCHANGED << svars, bvars, avars >>

\* The request answers, or fails, by itself.
PollSettles(o) ==
    /\ ppc = "fetch"
    /\ AttemptEnds(o)
    /\ UNCHANGED timeouts

\* The connect timer fires while the fetch is pending and cancels the
\* token: a request that listens to it rejects, which poll() catches.
ConnectTimeoutFires ==
    /\ ppc = "fetch"
    /\ timer = "armed"
    /\ IF cancelRejects(forwardsToken)
       THEN /\ AttemptEnds(ThrowsPlain)
            /\ timeouts' = timeouts \cup {attempts}
       ELSE /\ timer' = "fired"
            /\ UNCHANGED << polling, allow404, attempts, pollRes, ppc,
                            fetchLog, waits, forwardsToken, timeouts >>
            /\ UNCHANGED << svars, bvars, avars >>

\* The timer of delay(intervalMs) fires and the next fetch is issued.
DelayElapsed ==
    /\ ppc = "delay"
    /\ ppc' = "fetch"
    /\ timer' = "armed"
    /\ UNCHANGED << polling, allow404, attempts, pollRes, fetchLog, waits,
                    forwardsToken, timeouts >>
    /\ UNCHANGED << svars, bvars, avars >>

PollNext ==
    \/ \E o \in FetchOutcomes : PollSettles(o)
    \/ ConnectTimeoutFires
    \/ DelayElapsed

PollSpec == PollInit /\ [][PollNext]_vars

\* Every call of getQueuedJob eventually returns or throws, and every
\* delay elapses.
PollFairSpec ==
    /\ PollInit
    /\ [][PollNext]_vars
    /\ WF_vars(\E o \in FetchOutcomes : PollSettles(o))
    /\ WF_vars(DelayElapsed)

\* The batch polls of the pipeline: defaultPolling's interval or the
\* default poll interval, no allow404; timers fire, a request need not
\* ever answer.
TimeoutPollings ==
    { [intervalMs |-> i, maxAttempts |-> m, hasBackoff |-> FALSE,
       backoff |-> NoTable] :
          i \in {BatchPollIntervalMs, PollIntervalMs},
          m \in 0..MaxMaxAttempts }

TimeoutInit ==
    /\ polling \in TimeoutPollings
    /\ allow404 = FALSE
    /\ forwardsToken \in BOOLEAN
    /\ PollStarted

TimeoutSpec ==
    /\ TimeoutInit
    /\ [][PollNext]_vars
    /\ WF_vars(ConnectTimeoutFires)
    /\ WF_vars(DelayElapsed)

\* The value pollQueuedJob resolves to: {...pollRes, attempts, id}.
PollOutcome ==
    [res |-> pollRes.res, status |-> pollRes.status,
     attempts |-> attempts, id |-> JobId]

\* throwOnError: the Error thrown for a pollQueuedJob result; its message
\* names the job id, and the attempts only when the result is neither a
\* queued job in error status nor a Failure.
throwOnError(r) ==
    [kind |-> "throws", id |-> r.id,
     attempts |-> IF isQueuedJobError(r.res) \/ isFailure(r.res)
                  THEN Undefined ELSE r.attempts]

\* What a caller of pollQueuedJob makes of its result r (createExport,
\* createSceneItem): if (isPollError(pollRes.res)) throwOnError(pollRes);
\* return pollRes.res.
createExport(r) ==
    IF isPollError(r.res) THEN throwOnError(r)
    ELSE [kind |-> "returns", res |-> r.res]

(***************************************************************************)
(* scenes.ts: createSceneAndSceneItems.                                    *)
(*                                                                         *)
(* A CreateSceneItemRequest is modelled by the fields the pipeline reads:  *)
(* n (the identity of the request object: its position in the input),      *)
(* suppliedId ("" when absent), parent (attributes.parent ??               *)
(* relationships.parent?.data.id ?? ''), ordinal (Undefined when absent),  *)
(* and placeholder (TRUE for the retry request built from an item error).  *)
(***************************************************************************)
\* Stands for batchSize = 500 of createSceneItems, scaled down.
BatchSize == 2
\* parallelism is drawn from 1..MaxParallelism
MaxParallelism == 2
\* Stands for sceneReadyPolling.maxAttempts = 3600, scaled down.
SceneReadyMaxAttempts == 2
\* The cap of pLimit(Math.min(parallelism, 100)).
MaxLimit == 100

Req(n, sid, parent) ==
    [n |-> n, suppliedId |-> sid, parent |-> parent, ordinal |-> Undefined,
     placeholder |-> FALSE]

\* A Map<string, CreateSceneItemRequest[]> keeps its keys in insertion
\* order: a sequence of <<key, children>> entries.
MapHas(m, k) == \E i \in 1..Len(m) : m[i].key = k

MapGet(m, k) ==
    LET i == CHOOSE j \in 1..Len(m) : m[j].key = k IN m[i].children

MapDelete(m, k) == SelectSeq(m, LAMBDA e : e.key # k)

MapPush(m, k, req) ==
    IF MapHas(m, k)
    THEN [i \in 1..Len(m) |->
            IF m[i].key = k
            THEN [key |-> k, children |-> Append(m[i].children, req)]
            ELSE m[i]]
    ELSE Append(m, [key |-> k, children |-> << req >>])

RECURSIVE flatten(_)
flatten(ss) == IF Len(ss) = 0 THEN << >> ELSE Head(ss) \o flatten(Tail(ss))

\* createSceneItemReqs.forEach: file each request under its parent and give
\* it its position among the siblings as ordinal when it has none.
RECURSIVE buildReqMap(_, _)
RECURSIVE buildReqMapOverwrite(_, _)
buildReqMapOverwrite(rs, m) ==
    IF Len(rs) = 0 THEN m
    ELSE LET req      == Head(rs)
             siblings == IF MapHas(m, req.parent)
                         THEN MapGet(m, req.parent) ELSE << >>
             withOrd  == [req EXCEPT !.ordinal = Len(siblings)]
         IN  buildReqMapOverwrite(Tail(rs), MapPush(m, req.parent, withOrd))

buildReqMap(rs, m) ==
    IF Len(rs) = 0 THEN m
    ELSE LET req      == Head(rs)
             siblings == IF MapHas(m, req.parent)
                         THEN MapGet(m, req.parent) ELSE << >>
             withOrd  == IF req.ordinal = Undefined
                         THEN [req EXCEPT !.ordinal = Len(siblings)]
                         ELSE req
         IN  buildReqMap(Tail(rs), MapPush(m, req.parent, withOrd))

\* nextChildren.flatMap: each request takes the children filed under its
\* suppliedId out of the map; returns the children and the remaining map.
RECURSIVE takeChildren(_, _, _)
takeChildrenAny(items, m, acc) ==
    IF Len(items) = 0 THEN [children |-> acc, map |-> m]
    ELSE [children |-> acc \o flatten([i \in 1..Len(m) |-> m[i].children]),
          map |-> << >>]

takeChildren(items, m, acc) ==
    IF Len(items) = 0 THEN [children |-> acc, map |-> m]
    ELSE LET req == Head(items) IN
         IF req.suppliedId # "" /\ MapHas(m, req.suppliedId)
         THEN takeChildren(Tail(items), MapDelete(m, req.suppliedId),
                           acc \o MapGet(m, req.suppliedId))
         ELSE takeChildren(Tail(items), m, acc)

\* The while loop building depthSortedItems; returns the layers and what is
\* left in reqMap.
RECURSIVE depthSort(_, _, _)
depthSort(nextChildren, m, sorted) ==
    IF Len(nextChildren) = 0 THEN [layers |-> sorted, map |-> m]
    ELSE LET t == takeChildren(nextChildren, m, << >>)
         IN  depthSort(t.children, t.map, Append(sorted, nextChildren))

sortedFrom(m) ==
    depthSort(IF MapHas(m, "") THEN MapGet(m, "") ELSE << >>,
              MapDelete(m, ""), << >>)

depthSortedItems(rs) == sortedFrom(buildReqMap(rs, << >>)).layers

\* reqMap.forEach after the sort: the requests whose parent never appeared.
invalidParentItemsNone(rs) == << >>

invalidParentItems(rs) ==
    LET m == sortedFrom(buildReqMap(rs, << >>)).map
    IN  flatten([i \in 1..Len(m) |-> m[i].children])

\* utils.ts arrayChunked: consecutive chunks of chunkSize elements.
arrayChunkedFloor(a, chunkSize) ==
    [c \in 1..(Len(a) \div chunkSize) |->
        SubSeq(a, (c - 1) * chunkSize + 1, c * chunkSize)]

arrayChunked(a, chunkSize) ==
    [c \in 1..((Len(a) + chunkSize - 1) \div chunkSize) |->
        SubSeq(a, (c - 1) * chunkSize + 1,
               IF c * chunkSize < Len(a) THEN c * chunkSize ELSE Len(a))]

\* The longest request list the layering is applied to.
MaxReqs == 3

LayerSuppliedIds == {"", "a", "b"}

LayerParents == {"", "a", "b"}

LayerOrdinals == {Undefined, 7}

\* Every request list of up to MaxReqs requests over these attributes:
\* roots, chains, siblings, duplicate suppliedIds, requests that are their
\* own parent, cycles, parents no request supplies, explicit and absent
\* ordinals.
LayerRequestList(k, f) ==
    [i \in 1..k |-> [Req(i, f[i][1], f[i][2]) EXCEPT !.ordinal = f[i][3]]]

\* The request lists createSceneAndSceneItems is run on.
SceneRequestLists ==
    { << Req(1, "a", ""), Req(2, "b", ""), Req(3, "c", ""),
         Req(4, "a1", "a") >>,
      << Req(1, "a", ""), Req(2, "a1", "a"), Req(3, "a11", "a1"),
         Req(4, "x", "zz") >> }

(***************************************************************************)
(* The pipeline.  Network calls settle one at a time (single-threaded      *)
(* cooperative scheduling); what runs between two awaits is one step.      *)
(***************************************************************************)
\* pLimit(Math.min(parallelism, 100))
limitOfPlusOne(par) == IF par < MaxLimit THEN par + 1 ELSE MaxLimit

limitOf(par) == IF par < MaxLimit THEN par ELSE MaxLimit

\* limit.activeCount: the submissions and polls running under the limiter.
activeCount(bs) ==
    Cardinality({ c \in 1..Len(bs) :
                    bs[c].sub = "inflight" \/ bs[c].pol = "inflight" })

\* opChunks of createSceneItems, each with the state of its createBatch
\* call (sub) and of its pollQueuedJob (pol).
newBatches(items) ==
    LET ch == arrayChunked(items, BatchSize)
    IN  [c \in 1..Len(ch) |->
            [ops |-> ch[c], sub |-> "waiting", pol |-> "none",
             results |-> << >>]]

Call(op, d, c, ph) == [op |-> op, depth |-> d, chunk |-> c, placeholder |-> ph]

\* An exchange with the platform: a createBatch request with its
\* operations ("submit"), its answer ("accepted", "rejected", "threw"),
\* the outcome of a batch's pollQueuedJob ("batch" with one result per
\* operation, "error", "pending"), or the state a getScene reported.
Served(ev, d, c, ph, ops, results) ==
    [ev |-> ev, depth |-> d, chunk |-> c, placeholder |-> ph, ops |-> ops,
     results |-> results]

\* pollSceneReady's loop test: scene.data.attributes.state !== 'ready'.
sceneIsReadyOrCommitting(state) == state \in {"ready", "committing"}

sceneIsReady(state) == state = "ready"

\* pollSceneReady's budget test: attempts > maxAttempts.
sceneBudgetExceededLate(n, maxAttempts) == n > maxAttempts + 1

sceneBudgetExceededEarly(n, maxAttempts) == n >= maxAttempts

sceneBudgetExceeded(n, maxAttempts) == n > maxAttempts

\* What a resolved Batch holds for one operation: the created scene item's
\* reference or an ApiError.
ResultKinds == {"created", "partNotFound", "parentNotFound", "apiError"}

\* The results considered for a placeholder operation.
PlaceholderResultKinds == {"created", "partNotFound"}

\* SceneItemErrorSourcePointer.
ParentPointer == "/body/data/attributes/parent"

SourcePartPointer == "/body/data/relationships/source/data"

\* The ApiError a result stands for: the code and source pointer the
\* predicates below read.  "parentNotFound" is also the error
\* createSceneAndSceneItems builds itself for a request left in reqMap.
ApiErrorFields(res) ==
    CASE res = "partNotFound" ->
           [status |-> "404", code |-> "NotFound", pointer |-> SourcePartPointer]
      [] res = "parentNotFound" ->
           [status |-> "404", code |-> "NotFound", pointer |-> ParentPointer]
      [] OTHER ->
           [status |-> "400", code |-> "BadRequest", pointer |-> "undefined"]

isApiErrorResult(res) == res \in {"partNotFound", "apiError", "parentNotFound"}

isSceneItemRelationship(res) == res = "created"

\* scene-items.ts isPartNotFoundError: NotFound with the source pointer on
\* the source relationship.
isPartNotFoundErrorAnyPointer(res) ==
    /\ isApiErrorResult(res)
    /\ ApiErrorFields(res).code = "NotFound"

isPartNotFoundError(res) ==
    /\ isApiErrorResult(res)
    /\ ApiErrorFields(res).code = "NotFound"
    /\ ApiErrorFields(res).pointer # "undefined"
    /\ ApiErrorFields(res).pointer = SourcePartPointer

isParentNotFoundError(res) ==
    /\ isApiErrorResult(res)
    /\ ApiErrorFields(res).code = "NotFound"
    /\ ApiErrorFields(res).pointer # "undefined"
    /\ ApiErrorFields(res).pointer = ParentPointer

\* The retry request of an item error: same request, source stripped.
placeholderReq(e) == [e.req EXCEPT !.placeholder = TRUE]

ItemError(req, res) == [req |-> req, res |-> res, placeholderItem |-> Undefined]

\* The locals of createSceneAndSceneItems and createSceneItemBatch.
Locals ==
    [spc |-> spc, depth |-> depth, retrying |-> retrying,
     batches |-> batches, errors |-> errors, retryErrors |-> retryErrors,
     rq |-> resultQueuedOps, rbe |-> resultBatchErrors,
     rie |-> resultItemErrors, calls |-> calls]

SetLocals(l) ==
    /\ spc' = l.spc
    /\ depth' = l.depth
    /\ retrying' = l.retrying
    /\ batches' = l.batches
    /\ errors' = l.errors
    /\ retryErrors' = l.retryErrors
    /\ resultQueuedOps' = l.rq
    /\ resultBatchErrors' = l.rbe
    /\ resultItemErrors' = l.rie
    /\ calls' = l.calls

\* The for loop's test at depth d: the next layer's createSceneItemBatch
\* (its chunks handed to the limiter), or past the last layer the commit
\* updateScene call.
enterDepth(l, sorted, d) ==
    IF d < Len(sorted)
    THEN [l EXCEPT !.spc = "submit", !.depth = d, !.retrying = FALSE,
                   !.batches = newBatches(sorted[d + 1]),
                   !.errors = << >>]
    ELSE [l EXCEPT !.spc = "commit", !.depth = d, !.retrying = FALSE,
                   !.calls = Append(@, Call("commit", d, 0, FALSE))]

\* createSceneItemBatch has returned {batchOps, batchErrors, itemErrors,
\* itemResults}: lines 288-371 of createSceneAndSceneItems for a layer's
\* call, lines 363-368 for the placeholder call.
afterBatchAnyError(l, sorted, ff, batchOps, batchErrors, itemErrors, itemResults) ==
    IF ~l.retrying
    THEN LET l1 == [l EXCEPT !.rq = @ \o batchOps, !.rbe = @ \o batchErrors]
         IN  IF Len(l.rie) + Len(itemErrors) > 0
             THEN LET base == Len(l.rie)
                      l2   == [l1 EXCEPT !.rie = @ \o itemErrors]
                      idx  == SelectSeq(
                                 [i \in 1..Len(itemErrors) |-> base + i],
                                 LAMBDA i : isPartNotFoundError(l2.rie[i].res))
                  IN  IF ff
                      THEN [l2 EXCEPT !.spc = "done"]
                      ELSE IF Len(idx) > 0
                      THEN [l2 EXCEPT
                              !.spc = "submit", !.retrying = TRUE,
                              !.retryErrors = idx, !.errors = << >>,
                              !.batches = newBatches(
                                  [i \in 1..Len(idx) |->
                                      placeholderReq(l2.rie[idx[i]])])]
                      ELSE enterDepth(l2, sorted, l.depth + 1)
             ELSE enterDepth(l1, sorted, l.depth + 1)
    ELSE LET hit(i) == { j \in 1..Len(itemResults) :
                           /\ j <= Len(l.retryErrors)
                           /\ l.retryErrors[j] = i
                           /\ isSceneItemRelationship(itemResults[j].res) }
             attached == [i \in 1..Len(l.rie) |->
                            IF hit(i) # {}
                            THEN [l.rie[i] EXCEPT !.placeholderItem =
                                    itemResults[CHOOSE j \in hit(i) : TRUE].req.n]
                            ELSE l.rie[i]]
         IN  enterDepth([l EXCEPT !.rie = attached], sorted, l.depth + 1)

afterBatchNoFailFast(l, sorted, ff, batchOps, batchErrors, itemErrors, itemResults) ==
    IF ~l.retrying
    THEN LET l1 == [l EXCEPT !.rq = @ \o batchOps, !.rbe = @ \o batchErrors]
         IN  IF Len(itemErrors) > 0
             THEN LET base == Len(l.rie)
                      l2   == [l1 EXCEPT !.rie = @ \o itemErrors]
                      idx  == SelectSeq(
                                 [i \in 1..Len(itemErrors) |-> base + i],
                                 LAMBDA i : isPartNotFoundError(l2.rie[i].res))
                  IN  IF FALSE
                      THEN [l2 EXCEPT !.spc = "done"]
                      ELSE IF Len(idx) > 0
                      THEN [l2 EXCEPT
                              !.spc = "submit", !.retrying = TRUE,
                              !.retryErrors = idx, !.errors = << >>,
                              !.batches = newBatches(
                                  [i \in 1..Len(idx) |->
                                      placeholderReq(l2.rie[idx[i]])])]
                      ELSE enterDepth(l2, sorted, l.depth + 1)
             ELSE enterDepth(l1, sorted, l.depth + 1)
    ELSE LET hit(i) == { j \in 1..Len(itemResults) :
                           /\ j <= Len(l.retryErrors)
                           /\ l.retryErrors[j] = i
                           /\ isSceneItemRelationship(itemResults[j].res) }
             attached == [i \in 1..Len(l.rie) |->
                            IF hit(i) # {}
                            THEN [l.rie[i] EXCEPT !.placeholderItem =
                                    itemResults[CHOOSE j \in hit(i) : TRUE].req.n]
                            ELSE l.rie[i]]
         IN  enterDepth([l EXCEPT !.rie = attached], sorted, l.depth + 1)

afterBatchBreakCommits(l, sorted, ff, batchOps, batchErrors, itemErrors, itemResults) ==
    IF ~l.retrying
    THEN LET l1 == [l EXCEPT !.rq = @ \o batchOps, !.rbe = @ \o batchErrors]
         IN  IF Len(itemErrors) > 0
             THEN LET base == Len(l.rie)
                      l2   == [l1 EXCEPT !.rie = @ \o itemErrors]
                      idx  == SelectSeq(
                                 [i \in 1..Len(itemErrors) |-> base + i],
                                 LAMBDA i : isPartNotFoundError(l2.rie[i].res))
                  IN  IF ff
                      THEN enterDepth(l2, sorted, Len(sorted))
                      ELSE IF Len(idx) > 0
                      THEN [l2 EXCEPT
                              !.spc = "submit", !.retrying = TRUE,
                              !.retryErrors = idx, !.errors = << >>,
                              !.batches = newBatches(
                                  [i \in 1..Len(idx) |->
                                      placeholderReq(l2.rie[idx[i]])])]
                      ELSE enterDepth(l2, sorted, l.depth + 1)
             ELSE enterDepth(l1, sorted, l.depth + 1)
    ELSE LET hit(i) == { j \in 1..Len(itemResults) :
                           /\ j <= Len(l.retryErrors)
                           /\ l.retryErrors[j] = i
                           /\ isSceneItemRelationship(itemResults[j].res) }
             attached == [i \in 1..Len(l.rie) |->
                            IF hit(i) # {}
                            THEN [l.rie[i] EXCEPT !.placeholderItem =
                                    itemResults[CHOOSE j \in hit(i) : TRUE].req.n]
                            ELSE l.rie[i]]
         IN  enterDepth([l EXCEPT !.rie = attached], sorted, l.depth + 1)

afterBatch(l, sorted, ff, batchOps, batchErrors, itemErrors, itemResults) ==
    IF ~l.retrying
    THEN LET l1 == [l EXCEPT !.rq = @ \o batchOps, !.rbe = @ \o batchErrors]
         IN  IF Len(itemErrors) > 0
             THEN LET base == Len(l.rie)
                      l2   == [l1 EXCEPT !.rie = @ \o itemErrors]
                      idx  == SelectSeq(
                                 [i \in 1..Len(itemErrors) |-> base + i],
                                 LAMBDA i : isPartNotFoundError(l2.rie[i].res))
                  IN  IF ff
                      THEN [l2 EXCEPT !.spc = "done"]
                      ELSE IF Len(idx) > 0
                      THEN [l2 EXCEPT
                              !.spc = "submit", !.retrying = TRUE,
                              !.retryErrors = idx, !.errors = << >>,
                              !.batches = newBatches(
                                  [i \in 1..Len(idx) |->
                                      placeholderReq(l2.rie[idx[i]])])]
                      ELSE enterDepth(l2, sorted, l.depth + 1)
             ELSE enterDepth(l1, sorted, l.depth + 1)
    ELSE LET hit(i) == { j \in 1..Len(itemResults) :
                           /\ j <= Len(l.retryErrors)
                           /\ l.retryErrors[j] = i
                           /\ isSceneItemRelationship(itemResults[j].res) }
             attached == [i \in 1..Len(l.rie) |->
                            IF hit(i) # {}
                            THEN [l.rie[i] EXCEPT !.placeholderItem =
                                    itemResults[CHOOSE j \in hit(i) : TRUE].req.n]
                            ELSE l.rie[i]]
         IN  enterDepth([l EXCEPT !.rie = attached], sorted, l.depth + 1)

\* Promise.all over the createBatch calls has resolved: every call has
\* settled and none rejected.
anySubmitted(bs) ==
    \E k \in 1..Len(bs) : bs[k].sub \in {"accepted", "rejected"}

allSubmitted(bs) ==
    \A k \in 1..Len(bs) : bs[k].sub \in {"accepted", "rejected"}

\* Promise.all over the polls has resolved.
anyPolled(bs) ==
    \E k \in 1..Len(bs) : bs[k].pol \in {"batch", "error", "pending"}

allPolled(bs) ==
    \A k \in 1..Len(bs) : bs[k].pol \in {"none", "batch", "error", "pending"}

\* partition(queuedBatchOps, isQueuedJob(res)): the chunk numbers of the
\* accepted batches (a) and of the rejected ones (b).
acceptedChunks(bs) ==
    SelectSeq([c \in 1..Len(bs) |-> c], LAMBDA c : bs[c].sub = "accepted")

rejectedChunks(bs) ==
    SelectSeq([c \in 1..Len(bs) |-> c], LAMBDA c : bs[c].sub = "rejected")

\* createSceneItems has resolved: partition the chunks, return early when
\* nothing was accepted, else hand the polls to the limiter.
afterSubmitUnpolledRetry(l, sorted, ff) ==
    LET accepted == acceptedChunks(l.batches)
        rejected == rejectedChunks(l.batches)
        batchOps == [i \in 1..Len(accepted) |->
                        [ops |-> l.batches[accepted[i]].ops, res |-> "queuedJob"]]
        batchErrors == [i \in 1..Len(rejected) |->
                        [ops |-> l.batches[rejected[i]].ops, res |-> "failure"]]
    IN  IF l.retrying \/ Len(accepted) = 0 \/ Len(rejected) = Len(l.batches)
        THEN afterBatch(l, sorted, ff, batchOps, batchErrors, << >>, << >>)
        ELSE [l EXCEPT !.spc = "poll", !.errors = rejected,
                       !.batches = [c \in 1..Len(l.batches) |->
                           IF l.batches[c].sub = "accepted"
                           THEN [l.batches[c] EXCEPT !.pol = "waiting"]
                           ELSE l.batches[c]]]

afterSubmit(l, sorted, ff) ==
    LET accepted == acceptedChunks(l.batches)
        rejected == rejectedChunks(l.batches)
        batchOps == [i \in 1..Len(accepted) |->
                        [ops |-> l.batches[accepted[i]].ops, res |-> "queuedJob"]]
        batchErrors == [i \in 1..Len(rejected) |->
                        [ops |-> l.batches[rejected[i]].ops, res |-> "failure"]]
    IN  IF Len(accepted) = 0 \/ Len(rejected) = Len(l.batches)
        THEN afterBatch(l, sorted, ff, batchOps, batchErrors, << >>, << >>)
        ELSE [l EXCEPT !.spc = "poll", !.errors = rejected,
                       !.batches = [c \in 1..Len(l.batches) |->
                           IF l.batches[c].sub = "accepted"
                           THEN [l.batches[c] EXCEPT !.pol = "waiting"]
                           ELSE l.batches[c]]]

\* Promise.all over the polls has resolved: the rest of
\* createSceneItemBatch.
afterPollFirstOp(l, sorted, ff) ==
    LET accepted == acceptedChunks(l.batches)
        rejected == rejectedChunks(l.batches)
        batchOps == [i \in 1..Len(accepted) |->
                        [ops |-> l.batches[accepted[i]].ops, res |-> "queuedJob"]]
        batchErrors == [i \in 1..Len(rejected) |->
                        [ops |-> l.batches[rejected[i]].ops, res |-> "failure"]]
        resultsOf(c) ==
            IF l.batches[c].pol = "batch"
            THEN [j \in 1..Len(l.batches[c].ops) |->
                     [req |-> l.batches[c].ops[1],
                      res |-> l.batches[c].results[j]]]
            ELSE << >>
        itemResults == flatten([i \in 1..Len(accepted) |-> resultsOf(accepted[i])])
        errorsOf(c) ==
            [j \in 1..Len(l.batches[c].ops) |->
                ItemError(l.batches[c].ops[j],
                          IF l.batches[c].sub = "rejected"
                          THEN "failure" ELSE "pollError")]
        itemErrors ==
            [i \in 1..Len(SelectSeq(itemResults,
                            LAMBDA r : isApiErrorResult(r.res))) |->
                LET r == SelectSeq(itemResults,
                            LAMBDA x : isApiErrorResult(x.res))[i]
                IN  ItemError(r.req, r.res)]
            \o flatten([i \in 1..Len(l.errors) |-> errorsOf(l.errors[i])])
    IN  afterBatch(l, sorted, ff, batchOps, batchErrors, itemErrors, itemResults)

afterPollItemErrorsOnly(l, sorted, ff) ==
    LET accepted == acceptedChunks(l.batches)
        rejected == rejectedChunks(l.batches)
        batchOps == [i \in 1..Len(accepted) |->
                        [ops |-> l.batches[accepted[i]].ops, res |-> "queuedJob"]]
        batchErrors == [i \in 1..Len(rejected) |->
                        [ops |-> l.batches[rejected[i]].ops, res |-> "failure"]]
        resultsOf(c) ==
            IF l.batches[c].pol = "batch"
            THEN [j \in 1..Len(l.batches[c].ops) |->
                     [req |-> l.batches[c].ops[j],
                      res |-> l.batches[c].results[j]]]
            ELSE << >>
        itemResults == flatten([i \in 1..Len(accepted) |-> resultsOf(accepted[i])])
        errorsOf(c) ==
            [j \in 1..Len(l.batches[c].ops) |->
                ItemError(l.batches[c].ops[j],
                          IF l.batches[c].sub = "rejected"
                          THEN "failure" ELSE "pollError")]
        itemErrors ==
            [i \in 1..Len(SelectSeq(itemResults,
                            LAMBDA r : isApiErrorResult(r.res))) |->
                LET r == SelectSeq(itemResults,
                            LAMBDA x : isApiErrorResult(x.res))[i]
                IN  ItemError(r.req, r.res)]
    IN  afterBatch(l, sorted, ff, batchOps, batchErrors, itemErrors, itemResults)

afterPoll(l, sorted, ff) ==
    LET accepted == acceptedChunks(l.batches)
        rejected == rejectedChunks(l.batches)
        batchOps == [i \in 1..Len(accepted) |->
                        [ops |-> l.batches[accepted[i]].ops, res |-> "queuedJob"]]
        batchErrors == [i \in 1..Len(rejected) |->
                        [ops |-> l.batches[rejected[i]].ops, res |-> "failure"]]
        resultsOf(c) ==
            IF l.batches[c].pol = "batch"
            THEN [j \in 1..Len(l.batches[c].ops) |->
                     [req |-> l.batches[c].ops[j],
                      res |-> l.batches[c].results[j]]]
            ELSE << >>
        itemResults == flatten([i \in 1..Len(accepted) |-> resultsOf(accepted[i])])
        errorsOf(c) ==
            [j \in 1..Len(l.batches[c].ops) |->
                ItemError(l.batches[c].ops[j],
                          IF l.batches[c].sub = "rejected"
                          THEN "failure" ELSE "pollError")]
        itemErrors ==
            [i \in 1..Len(SelectSeq(itemResults,
                            LAMBDA r : isApiErrorResult(r.res))) |->
                LET r == SelectSeq(itemResults,
                            LAMBDA x : isApiErrorResult(x.res))[i]
                IN  ItemError(r.req, r.res)]
            \o flatten([i \in 1..Len(l.errors) |-> errorsOf(l.errors[i])])
    IN  afterBatch(l, sorted, ff, batchOps, batchErrors, itemErrors, itemResults)

PollIdle ==
    /\ polling = [intervalMs |-> 1, maxAttempts |-> 0, hasBackoff |-> FALSE,
                  backoff |-> NoTable]
    /\ allow404 = TRUE
    /\ attempts = 0
    /\ pollRes = NoPollRes
    /\ ppc = "idle"
    /\ fetchLog = << >>
    /\ waits = << >>
    /\ forwardsToken = FALSE
    /\ timer = "off"
    /\ timeouts = {}

\* createSceneAndSceneItems is called: createScene is in flight.
SceneStarted ==
    /\ readyMaxAttempts = SceneReadyMaxAttempts
    /\ spc = "createScene"
    /\ layers = << >>
    /\ depth = 0
    /\ retrying = FALSE
    /\ batches = << >>
    /\ errors = << >>
    /\ retryErrors = << >>
    /\ resultQueuedOps = << >>
    /\ resultBatchErrors = << >>
    /\ resultItemErrors = << >>
    /\ scenePolls = 0
    /\ sceneResult = "undefined"
    /\ calls = << >>
    /\ served = << >>
    /\ PollIdle
    /\ BackoffIdle
    /\ ArrayIdle

\* returnQueued is left at its default.
SceneInit ==
    /\ reqs \in SceneRequestLists
    /\ failFast \in BOOLEAN
    /\ parallelism \in 1..MaxParallelism
    /\ returnQueued = FALSE
    /\ SceneStarted

\* createScene settles; the parent map, the depth layers and the
\* invalid-parent errors are built and the first layer is started.
SceneCreated(ok) ==
    /\ spc = "createScene"
    /\ LET sorted  == depthSortedItems(reqs)
           invalid == invalidParentItems(reqs)
           l0 == [Locals EXCEPT !.rie =
                    [i \in 1..Len(invalid) |->
                        ItemError(invalid[i], "parentNotFound")]]
       IN  IF ok
           THEN /\ layers' = sorted
                /\ SetLocals(enterDepth(l0, sorted, 0))
           ELSE /\ layers' = layers
                /\ SetLocals([Locals EXCEPT !.spc = "threw"])
    /\ UNCHANGED << reqs, failFast, parallelism, returnQueued,
                    readyMaxAttempts,
                    scenePolls, sceneResult,
                    served >>
    /\ UNCHANGED << pvars, bvars, avars >>

\* The limiter starts the createBatch call of the first waiting chunk.
StartSubmit(c) ==
    /\ spc \in {"submit", "threw"}
    /\ c \in 1..Len(batches)
    /\ batches[c].sub = "waiting"
    /\ \A c2 \in 1..(c - 1) : batches[c2].sub # "waiting"
    /\ activeCount(batches) < limitOf(parallelism)
    /\ batches' = [batches EXCEPT ![c].sub = "inflight"]
    /\ calls' = Append(calls, Call("createBatch", depth, c, retrying))
    /\ served' = Append(served, Served("submit", depth, c, retrying,
                                        batches[c].ops, << >>))
    /\ UNCHANGED << reqs, failFast, parallelism, returnQueued,
                    readyMaxAttempts,
                    spc, layers, depth, retrying,
                    errors, retryErrors, resultQueuedOps, resultBatchErrors,
                    resultItemErrors, scenePolls, sceneResult >>
    /\ UNCHANGED << pvars, bvars, avars >>

\* What a createBatch call can do: resolve with a queued job, reject with
\* an error carrying a vertexError (a Failure), reject with another error.
SubmitOutcomes == {"queuedJob", "failure", "error"}

\* The try/catch around createBatch: the answer is kept as res, a
\* rejection carrying a vertexError is kept as res unless failFast, any
\* other rejection is rethrown.
submitResultKeepsAll(o, ff) ==
    IF o = "queuedJob" THEN "accepted"
    ELSE IF ~ff THEN "rejected"
    ELSE "threw"

submitResult(o, ff) ==
    IF o = "queuedJob" THEN "accepted"
    ELSE IF o = "failure" /\ ~ff THEN "rejected"
    ELSE "threw"

\* A createBatch call settles.  A rejection that is rethrown rejects
\* Promise.all and with it createSceneAndSceneItems; when the last chunk
\* settles Promise.all resolves and createSceneItemBatch goes on.
SubmitSettles(c, o) ==
    /\ c \in 1..Len(batches)
    /\ batches[c].sub = "inflight"
    /\ LET sub2 == submitResult(o, failFast)
           l1 == [Locals EXCEPT
                    !.batches[c].sub = sub2,
                    !.calls = Append(@, Call("createBatchSettled", depth, c,
                                             retrying))]
       IN  IF spc = "submit" /\ sub2 = "threw"
           THEN SetLocals([l1 EXCEPT !.spc = "threw"])
           ELSE IF spc = "submit" /\ allSubmitted(l1.batches)
           THEN SetLocals(afterSubmit(l1, layers, failFast))
           ELSE SetLocals(l1)
    /\ served' = Append(served,
                    Served(submitResult(o, failFast), depth, c, retrying,
                           batches[c].ops, << o >>))
    /\ UNCHANGED << reqs, failFast, parallelism, returnQueued,
                    readyMaxAttempts,
                    layers, scenePolls,
                    sceneResult >>
    /\ UNCHANGED << pvars, bvars, avars >>

\* The limiter starts the pollQueuedJob of the first waiting batch.
StartPoll(c) ==
    /\ spc \in {"poll", "threw"}
    /\ c \in 1..Len(batches)
    /\ batches[c].pol = "waiting"
    /\ \A c2 \in 1..(c - 1) : batches[c2].pol # "waiting"
    /\ activeCount(batches) < limitOf(parallelism)
    /\ batches' = [batches EXCEPT ![c].pol = "inflight"]
    /\ UNCHANGED << calls, served, reqs, failFast, parallelism,
                    returnQueued, readyMaxAttempts, spc, layers, depth, retrying,
                    errors, retryErrors, resultQueuedOps, resultBatchErrors,
                    resultItemErrors, scenePolls, sceneResult >>
    /\ UNCHANGED << pvars, bvars, avars >>

\* What pollQueuedJob can resolve to for a batch of operations: the Batch
\* with one result per operation (a placeholder request has no source, so
\* no part-not-found error), a poll error (a queued job in error status or
\* a Failure), or a job still pending after maxAttempts.
BatchPollOutcomes(ops) ==
    { [kind |-> "batch", results |-> r] :
        r \in { f \in [1..Len(ops) -> ResultKinds] :
                  \A j \in 1..Len(ops) :
                      ops[j].placeholder => f[j] \in PlaceholderResultKinds } }
    \cup { [kind |-> "error", results |-> << >>],
           [kind |-> "pending", results |-> << >>] }

\* poll of createSceneItemBatch: if (isPollError(r.res)) failFast ?
\* throwOnError(r) : errors.push(...).  A job still pending after
\* maxAttempts is no poll error.
pollThrowsNever(kind, ff) == FALSE

pollThrows(kind, ff) == kind = "error" /\ ff

\* The pollQueuedJob of a batch resolves (poll of createSceneItemBatch).
BatchPollSettles(c, o) ==
    /\ c \in 1..Len(batches)
    /\ batches[c].pol = "inflight"
    /\ o \in BatchPollOutcomes(batches[c].ops)
    /\ LET pol2 == IF pollThrows(o.kind, failFast) THEN "threw" ELSE o.kind
           l1 == [Locals EXCEPT
                    !.batches[c].pol = pol2,
                    !.batches[c].results = o.results,
                    !.errors = IF pol2 = "error" THEN Append(@, c) ELSE @,
                    !.calls = Append(@, Call("pollSettled", depth, c,
                                             retrying))]
       IN  IF spc = "poll" /\ pol2 = "threw"
           THEN SetLocals([l1 EXCEPT !.spc = "threw"])
           ELSE IF spc = "poll" /\ allPolled(l1.batches)
           THEN SetLocals(afterPoll(l1, layers, failFast))
           ELSE SetLocals(l1)
    /\ served' = Append(served,
                    Served(o.kind, depth, c, retrying, batches[c].ops,
                           o.results))
    /\ UNCHANGED << reqs, failFast, parallelism, returnQueued,
                    readyMaxAttempts,
                    layers, scenePolls,
                    sceneResult >>
    /\ UNCHANGED << pvars, bvars, avars >>

\* updateScene({state: commit}) settles; pollSceneReady issues its first
\* getScene.
CommitSettles(ok) ==
    /\ spc = "commit"
    /\ spc' = IF ok THEN "getScene" ELSE "threw"
    /\ scenePolls' = IF ok THEN 1 ELSE scenePolls
    /\ UNCHANGED << calls, served, reqs, failFast, parallelism,
                    returnQueued, readyMaxAttempts, layers, depth,
                    retrying, batches, errors, retryErrors, resultQueuedOps,
                    resultBatchErrors, resultItemErrors, sceneResult >>
    /\ UNCHANGED << pvars, bvars, avars >>

\* getScene settles with the scene's state (or rejects): pollSceneReady
\* returns on 'ready', throws once attempts exceed maxAttempts, else
\* delays.
SceneFetched(state) ==
    /\ spc = "getScene"
    /\ served' = Append(served, Served("getScene", depth, 0, FALSE, << >>,
                                        << state >>))
    /\ IF sceneIsReady(state)
       THEN /\ spc' = "fit"
            /\ calls' = Append(calls, Call("fit", depth, 0, FALSE))
            /\ UNCHANGED scenePolls
       ELSE IF state = "rejected" \/ sceneBudgetExceeded(scenePolls + 1, readyMaxAttempts)
       THEN /\ spc' = "threw"
            /\ scenePolls' = IF state = "rejected" THEN scenePolls
                             ELSE scenePolls + 1
            /\ UNCHANGED calls
       ELSE /\ spc' = "sceneDelay"
            /\ scenePolls' = scenePolls + 1
            /\ UNCHANGED calls
    /\ UNCHANGED << reqs, failFast, parallelism, returnQueued,
                    readyMaxAttempts,
                    layers, depth, retrying,
                    batches, errors, retryErrors, resultQueuedOps,
                    resultBatchErrors, resultItemErrors, sceneResult >>
    /\ UNCHANGED << pvars, bvars, avars >>

\* The delay(intervalMs) of pollSceneReady elapses: the next getScene.
SceneDelayElapsed ==
    /\ spc = "sceneDelay"
    /\ spc' = "getScene"
    /\ UNCHANGED << calls, served, reqs, failFast, parallelism,
                    returnQueued, readyMaxAttempts, layers, depth, retrying,
                    batches, errors, retryErrors, resultQueuedOps,
                    resultBatchErrors, resultItemErrors, scenePolls,
                    sceneResult >>
    /\ UNCHANGED << pvars, bvars, avars >>

\* updateScene({camera: fit}) settles and createSceneAndSceneItems returns.
FitSettles(ok) ==
    /\ spc = "fit"
    /\ spc' = IF ok THEN "done" ELSE "threw"
    /\ sceneResult' = IF ok THEN "scene" ELSE sceneResult
    /\ UNCHANGED << reqs, failFast, parallelism, returnQueued,
                    readyMaxAttempts,
                    layers, depth, retrying,
                    batches, errors, retryErrors, resultQueuedOps,
                    resultBatchErrors, resultItemErrors, scenePolls, calls,
                    served >>
    /\ UNCHANGED << pvars, bvars, avars >>

SceneNext ==
    \/ \E ok \in BOOLEAN : SceneCreated(ok)
    \/ \E c \in 1..Len(batches) : StartSubmit(c)
    \/ \E c \in 1..Len(batches), o \in SubmitOutcomes : SubmitSettles(c, o)
    \/ \E c \in 1..Len(batches) : StartPoll(c)
    \/ \E c \in 1..Len(batches) :
          \E o \in BatchPollOutcomes(batches[c].ops) :
              BatchPollSettles(c, o)
    \/ \E ok \in BOOLEAN : CommitSettles(ok)
    \/ \E state \in {"ready", "committing", "rejected"} : SceneFetched(state)
    \/ SceneDelayElapsed
    \/ \E ok \in BOOLEAN : FitSettles(ok)

SceneSpec == SceneInit /\ [][SceneNext]_vars

\* What createSceneAndSceneItems resolves to.
ResultAlwaysQueued ==
    [errors |-> resultBatchErrors,
     queued |-> resultQueuedOps,
     scene |-> sceneResult,
     sceneItemErrors |-> resultItemErrors]

Result ==
    [errors |-> resultBatchErrors,
     queued |-> IF returnQueued THEN resultQueuedOps ELSE << >>,
     scene |-> sceneResult,
     sceneItemErrors |-> resultItemErrors]

(***************************************************************************)
(* The pipeline with returnQueued set or not, its calls running one at a   *)
(* time.                                                                   *)
(***************************************************************************)
ReturnInit ==
    /\ reqs \in SceneRequestLists
    /\ failFast \in BOOLEAN
    /\ parallelism = 1
    /\ returnQueued \in BOOLEAN
    /\ SceneStarted

ReturnSpec == ReturnInit /\ [][SceneNext]_vars

(***************************************************************************)
(* pollSceneReady called by itself, with any maxAttempts up to             *)
(* MaxReadyAttempts.                                                       *)
(***************************************************************************)
\* polling.maxAttempts of pollSceneReady is drawn from 0..MaxReadyAttempts
MaxReadyAttempts == 4

\* What a getScene call can report as the scene's state, or reject.
SceneStates == {"draft", "committing", "ready", "rejected"}

\* pollSceneReady is called: the first getScene is in flight.
ReadyInit ==
    /\ reqs = << >>
    /\ failFast = FALSE
    /\ parallelism = 1
    /\ returnQueued = FALSE
    /\ readyMaxAttempts \in 0..MaxReadyAttempts
    /\ spc = "readyGetScene"
    /\ layers = << >>
    /\ depth = 0
    /\ retrying = FALSE
    /\ batches = << >>
    /\ errors = << >>
    /\ retryErrors = << >>
    /\ resultQueuedOps = << >>
    /\ resultBatchErrors = << >>
    /\ resultItemErrors = << >>
    /\ scenePolls = 1
    /\ sceneResult = "undefined"
    /\ calls = << >>
    /\ served = << >>
    /\ PollIdle
    /\ BackoffIdle
    /\ ArrayIdle

\* getScene settles: pollSceneReady returns the scene on 'ready', throws
\* once attempts exceed maxAttempts, else delays; a rejection of getScene
\* rejects pollSceneReady.
ReadyFetched(state) ==
    /\ spc = "readyGetScene"
    /\ served' = Append(served, Served("getScene", depth, 0, FALSE, << >>,
                                        << state >>))
    /\ IF state = "rejected"
       THEN /\ spc' = "readyRejected"
            /\ UNCHANGED << scenePolls, sceneResult >>
       ELSE IF sceneIsReady(state)
       THEN /\ spc' = "readyReturned"
            /\ sceneResult' = "scene"
            /\ UNCHANGED scenePolls
       ELSE IF sceneBudgetExceeded(scenePolls + 1, readyMaxAttempts)
       THEN /\ spc' = "readyThrew"
            /\ scenePolls' = scenePolls + 1
            /\ UNCHANGED sceneResult
       ELSE /\ spc' = "readyDelay"
            /\ scenePolls' = scenePolls + 1
            /\ UNCHANGED sceneResult
    /\ UNCHANGED << reqs, failFast, parallelism, returnQueued,
                    readyMaxAttempts, layers, depth, retrying, batches,
                    errors, retryErrors, resultQueuedOps, resultBatchErrors,
                    resultItemErrors, calls >>
    /\ UNCHANGED << pvars, bvars, avars >>

\* delay(intervalMs) elapses: the next getScene.
ReadyDelayElapsed ==
    /\ spc = "readyDelay"
    /\ spc' = "readyGetScene"
    /\ UNCHANGED << reqs, failFast, parallelism, returnQueued,
                    readyMaxAttempts, layers, depth, retrying, batches,
                    errors, retryErrors, resultQueuedOps, resultBatchErrors,
                    resultItemErrors, scenePolls, sceneResult, calls,
                    served >>
    /\ UNCHANGED << pvars, bvars, avars >>

ReadyNext ==
    \/ \E state \in SceneStates : ReadyFetched(state)
    \/ ReadyDelayElapsed

ReadySpec == ReadyInit /\ [][ReadyNext]_vars

(***************************************************************************)
(* The layering alone: createSceneAndSceneItems up to the start of the     *)
(* first layer, on every request list LayerRequestList builds.             *)
(***************************************************************************)
LayerInit ==
    /\ \E k \in 0..MaxReqs :
          \E f \in [1..k -> LayerSuppliedIds \X LayerParents \X LayerOrdinals] :
              reqs = LayerRequestList(k, f)
    /\ failFast = FALSE
    /\ parallelism = 1
    /\ returnQueued = FALSE
    /\ SceneStarted

LayerNext == \E ok \in BOOLEAN : SceneCreated(ok)

LayerSpec == LayerInit /\ [][LayerNext]_vars

(***************************************************************************)
(* polling.ts alone: getPollingConfiguration on every argument of the      *)
(* sets above, then getPollingDelay for the attempts 1, 2, ... of the      *)
(* Polling it returned.                                                    *)
(***************************************************************************)
\* The attempts getPollingDelay is computed for.
MaxDelayAttempt == MaxBackoffKey + 2

BackoffInit ==
    /\ \E i \in IntervalsMs, d \in 1..MaxPollDurationSeconds :
          \/ pollingArgs = [intervalMs |-> i, maxPollDurationSeconds |-> d,
                            hasBackoff |-> FALSE, backoff |-> NoTable]
          \/ \E t \in AllBackoffTables :
                pollingArgs = [intervalMs |-> i, maxPollDurationSeconds |-> d,
                               hasBackoff |-> TRUE, backoff |-> t]
    /\ pollingConf = NoConf
    /\ delays = << >>
    /\ PollIdle
    /\ SceneIdle
    /\ ArrayIdle

Configure ==
    /\ pollingConf = NoConf
    /\ pollingConf' = getPollingConfiguration(pollingArgs)
    /\ UNCHANGED << pollingArgs, delays >>
    /\ UNCHANGED << pvars, svars, avars >>

NextDelay ==
    /\ pollingConf # NoConf
    /\ Len(delays) < MaxDelayAttempt
    /\ delays' = Append(delays, getPollingDelay(Len(delays) + 1, pollingConf))
    /\ UNCHANGED << pollingArgs, pollingConf >>
    /\ UNCHANGED << pvars, svars, avars >>

BackoffNext == Configure \/ NextDelay

BackoffSpec == BackoffInit /\ [][BackoffNext]_vars

(***************************************************************************)
(* utils.ts: arrayEq.  A number is a value or NaN.                         *)
(***************************************************************************)
\* The longest array arrayEq is applied to.
MaxArrayLen == 2

Num(v) == [nan |-> FALSE, v |-> v]

NaN == [nan |-> TRUE, v |-> 0]

Numbers == { Num(0), Num(1), NaN }

\* v === w on numbers: NaN equals nothing, itself included.
StrictEquals(v, w) == ~v.nan /\ ~w.nan /\ v.v = w.v

\* [...]: an array of the given elements.
ArrayOf(items) == [isArray |-> TRUE, items |-> items]

\* An object that is no array but has the same elements and length.
ArrayLike(items) == [isArray |-> FALSE, items |-> items]

\* Array.isArray(a) && Array.isArray(b) && a.length === b.length
arrayLenEqNoArrayCheck(a, b) == Len(a.items) = Len(b.items)

arrayLenEq(a, b) ==
    a.isArray /\ b.isArray /\ Len(a.items) = Len(b.items)

\* a.every((v, idx) => v === b[idx]), from index idx on.
RECURSIVE everyEquals(_, _, _)
everyEquals(a, b, idx) ==
    IF idx > Len(a) THEN TRUE
    ELSE IF ~(idx <= Len(b) /\ StrictEquals(a[idx], b[idx])) THEN FALSE
    ELSE everyEquals(a, b, idx + 1)

arrayEq(a, b) == arrayLenEq(a, b) /\ everyEquals(a.items, b.items, 1)

\* arrayEq is called on two values.
ArrayInit ==
    /\ \E k \in 0..MaxArrayLen, isArr \in BOOLEAN :
          \E items \in [1..k -> Numbers] :
              arrA = IF isArr THEN ArrayOf(items) ELSE ArrayLike(items)
    /\ \E k \in 0..MaxArrayLen, isArr \in BOOLEAN :
          \E items \in [1..k -> Numbers] :
              arrB = IF isArr THEN ArrayOf(items) ELSE ArrayLike(items)
    /\ arrRes = "none"
    /\ PollIdle
    /\ SceneIdle
    /\ BackoffIdle

\* arrayEq returns.
ArrayEqReturns ==
    /\ arrRes = "none"
    /\ arrRes' = IF arrayEq(arrA, arrB) THEN "true" ELSE "false"
    /\ UNCHANGED << arrA, arrB >>
    /\ UNCHANGED << pvars, svars, bvars >>

ArrayNext == ArrayEqReturns

ArraySpec == ArrayInit /\ [][ArrayNext]_vars


(***************************************************************************)
(* Properties of the poller.                                               *)
(***************************************************************************)
\* The fetch returned a queued job whose status is queued or executing.
StillPending(o) ==
    /\ o.kind = "return"
    /\ o.status = OkStatus
    /\ o.data \in { QueuedJobBody("queued"), QueuedJobBody("executing") }

\* The fetch was redirected to the resulting resource.
Resolved(o) == o = Returns(OkStatus, ResourceBody)

\* The fetch yielded HTTP status 404, as a response or as the status of the
\* failure the thrown error carries.
Yields404(o) ==
    /\ o.status = NotFoundStatus
    /\ o.kind = "return" \/ (o.hasVertexError /\ o.hasRes)

\* The fetch threw an error that carries no server-reported failure.
TransportError(o) == o.kind = "throw" /\ ~(o.hasVertexError /\ o.hasRes)

FirstCalls(k, P(_)) ==
    /\ Len(fetchLog) >= k
    /\ \A i \in 1..k : P(fetchLog[i])

\* C1: if fetch returns a still-pending job on its first k calls
\* (0 <= k < maxAttempts) the poller goes on to call k+1, and if call k+1
\* returns the resolved resource, pollQueuedJob returns that resource with
\* attempts = k+1 after exactly k+1 fetch calls.
C1_Convergence ==
    \A k \in 0..(polling.maxAttempts - 1) :
        /\ (Len(fetchLog) = k /\ FirstCalls(k, StillPending))
              => ppc \in {"fetch", "delay"}
        /\ (FirstCalls(k, StillPending) /\ Len(fetchLog) > k
                /\ Resolved(fetchLog[k + 1]))
              => /\ ppc = "done"
                 /\ Len(fetchLog) = k + 1
                 /\ PollOutcome.res = ResourceBody
                 /\ PollOutcome.attempts = k + 1

C1_Witness ==
    /\ ppc = "done"
    /\ polling.maxAttempts = 3
    /\ Len(fetchLog) = 3
    /\ FirstCalls(2, StillPending)
    /\ Resolved(fetchLog[3])
    /\ PollOutcome.attempts = 3

\* C2: if fetch always returns a still-pending job, pollQueuedJob with
\* maxAttempts = m (m >= 1) returns after exactly m fetch attempts, with
\* attempts = m and the still-pending job as its result.
C2_ExhaustionAfterMaxAttempts ==
    (/\ ppc = "done"
     /\ polling.maxAttempts >= 1
     /\ FirstCalls(Len(fetchLog), StillPending))
        => /\ Len(fetchLog) = polling.maxAttempts
           /\ PollOutcome.attempts = polling.maxAttempts
           /\ validJob(PollOutcome.res)

C4_NotFoundTolerance ==
    allow404 =>
      \A k \in 0..(polling.maxAttempts - 1) :
        /\ (Len(fetchLog) = k /\ FirstCalls(k, Yields404))
              => ppc \in {"fetch", "delay"}
        /\ (FirstCalls(k, Yields404) /\ Len(fetchLog) > k
                /\ Resolved(fetchLog[k + 1]))
              => /\ ppc = "done"
                 /\ Len(fetchLog) = k + 1
                 /\ PollOutcome.res = ResourceBody
                 /\ PollOutcome.attempts = k + 1

C4_Witness ==
    /\ ppc = "done"
    /\ allow404
    /\ Len(fetchLog) = 3
    /\ fetchLog[1] = Returns(NotFoundStatus, ServerFailureBody)
    /\ fetchLog[2] = ThrowsVertexError(NotFoundStatus, ServerFailureBody, TRUE)
    /\ Resolved(fetchLog[3])
    /\ PollOutcome.attempts = 3

C7_NeverThrows ==
    /\ ppc \in {"fetch", "delay", "done"}
    /\ ppc = "done" =>
          /\ PollOutcome.id = JobId
          /\ PollOutcome.attempts = Len(fetchLog)
          /\ PollOutcome.status = poll(fetchLog[Len(fetchLog)]).status
          /\ PollOutcome.res = poll(fetchLog[Len(fetchLog)]).res

C7_Witness ==
    /\ ppc = "done"
    /\ Len(fetchLog) = 4
    /\ fetchLog[1] = ThrowsPlain
    /\ fetchLog[2] = ThrowsVertexError(ServerErrorStatus, ServerFailureBody,
                                       FALSE)
    /\ fetchLog[3] = Returns(OkStatus, QueuedJobBody("queued"))
    /\ fetchLog[4] = ThrowsVertexError(ServerErrorStatus, ServerFailureBody,
                                       TRUE)

\* C8: when a fetch returns a queued job whose status is 'error' and the
\* response is not a tolerated 404, pollQueuedJob makes no further fetch
\* and returns that job with attempts equal to the number of fetches made,
\* and isPollError holds of the returned result.
C8_ErrorStatusTerminal ==
    \A i \in 1..Len(fetchLog) :
        (/\ fetchLog[i].kind = "return"
         /\ fetchLog[i].data = QueuedJobBody("error")
         /\ ~(allow404 /\ fetchLog[i].status = NotFoundStatus))
            => /\ i = Len(fetchLog)
               /\ ppc = "done"
               /\ PollOutcome.res = fetchLog[i].data
               /\ PollOutcome.attempts = Len(fetchLog)
               /\ isPollError(PollOutcome.res)

C8_Witness ==
    /\ ppc = "done"
    /\ polling.maxAttempts = 3
    /\ Len(fetchLog) = 3
    /\ FirstCalls(2, StillPending)
    /\ fetchLog[3] = Returns(OkStatus, QueuedJobBody("error"))
    /\ PollOutcome.attempts = 3

\* C9: between consecutive fetch attempts the poller waits
\* polling.intervalMs plus the backoff delay of the attempt, i.e. what
\* getPollingDelay gives for that attempt.
C9_WaitsIntervalPlusBackoff ==
    \A i \in 1..Len(waits) :
        waits[i].ms = getPollingDelay(waits[i].attempt, polling)

(***************************************************************************)
(* Properties of the batch pipeline.                                       *)
(***************************************************************************)
\* The number of batches of layer d (d counted from 0).
NumChunks(d) == Len(arrayChunked(depthSortedItems(reqs)[d + 1], BatchSize))

SettledBefore(p, d, c) ==
    /\ \E q \in 1..(p - 1) : calls[q] = Call("createBatch", d, c, FALSE)
    /\ \E q \in 1..(p - 1) : calls[q] = Call("createBatchSettled", d, c, FALSE)

\* C10: no createBatch call for a batch of layer d+1 requests is made
\* before every batch of layer d has been submitted and its createBatch
\* call has settled.
C10_DepthOrdering ==
    \A p \in 1..Len(calls) :
        (calls[p].op = "createBatch" /\ calls[p].depth > 0)
            => \A c \in 1..NumChunks(calls[p].depth - 1) :
                   SettledBefore(p, calls[p].depth - 1, c)

\* A layer-1 batch is submitted after a layer 0 of two batches whose
\* submissions ran concurrently.
C10_Witness ==
    /\ parallelism = 2
    /\ \E p \in 1..Len(calls) :
          /\ calls[p] = Call("createBatch", 1, 1, FALSE)
          /\ NumChunks(0) = 2
          /\ \E q \in 1..(p - 2) :
                /\ calls[q] = Call("createBatch", 0, 1, FALSE)
                /\ calls[q + 1] = Call("createBatch", 0, 2, FALSE)


(***************************************************************************)
(* Layering of the scene-item requests.                                    *)
(***************************************************************************)
\* createScene has settled and the layers are built.
Layered == spc \notin {"createScene", "threw"}

nsOf(items) == [i \in 1..Len(items) |-> items[i].n]

\* The requests of the input list that have no parent reference, in order.
RootRequests == SelectSeq(reqs, LAMBDA r : r.parent = "")

\* C11: layer 0 consists exactly of the requests that have no parent
\* reference, and every request placed in a layer N >= 1 has a parent id
\* equal to the suppliedId of some request placed in layer N - 1.
C11_LayerMembership ==
    Layered =>
        /\ nsOf(IF Len(layers) > 0 THEN layers[1] ELSE << >>)
              = nsOf(RootRequests)
        /\ \A N \in 2..Len(layers) : \A j \in 1..Len(layers[N]) :
              /\ layers[N][j].parent # ""
              /\ \E k \in 1..Len(layers[N - 1]) :
                    layers[N - 1][k].suppliedId = layers[N][j].parent

\* Two or more layers are built while a request that names itself as
\* parent stays out of them.
C11_Witness ==
    /\ Layered
    /\ Len(layers) >= 2
    /\ Len(resultItemErrors) > 0
    /\ \E i \in 1..Len(reqs) : reqs[i].parent = reqs[i].suppliedId

\* The requests as createSceneAndSceneItems holds them after the layering:
\* those of the layers and those reported for their parent.
HeldRequests ==
    flatten(layers) \o [i \in 1..Len(resultItemErrors) |->
                           resultItemErrors[i].req]

PrecedingSiblings(n) ==
    Cardinality({ k \in 1..(n - 1) : reqs[k].parent = reqs[n].parent })

\* C13: a request that lacks an explicit ordinal is given, as ordinal, the
\* number of requests preceding it in the input list that have the same
\* parent; a request with an explicit ordinal keeps it.
C13_OrdinalStability ==
    Layered =>
        \A i \in 1..Len(HeldRequests) :
            LET r == HeldRequests[i] IN
            r.ordinal = IF reqs[r.n].ordinal = Undefined
                        THEN PrecedingSiblings(r.n)
                        ELSE reqs[r.n].ordinal

\* A request without ordinal, behind a sibling with an explicit ordinal and
\* another one, is given ordinal 2.
C13_Witness ==
    /\ Layered
    /\ \E i \in 1..Len(HeldRequests) :
          LET r == HeldRequests[i] IN
          /\ reqs[r.n].ordinal = Undefined
          /\ r.ordinal = 2
          /\ \E k \in 1..(r.n - 1) :
                reqs[k].parent = reqs[r.n].parent /\ reqs[k].ordinal # Undefined

\* The request declares a parent that no request of the list supplies.
MissingParent(r) ==
    /\ r.parent # ""
    /\ \A k \in 1..Len(reqs) : reqs[k].suppliedId # r.parent

\* An item error of a request that was submitted in a batch.
BatchItemError(e) ==
    \E d \in 1..Len(layers) : \E j \in 1..Len(layers[d]) :
        layers[d][j].n = e.req.n

HasCall(op) == \E p \in 1..Len(calls) : calls[p].op = op

\* C12: every request whose declared parent id is not the suppliedId of any
\* request of the list is reported in sceneItemErrors as a 404 'NotFound'
\* ApiError whose source pointer is '/body/data/attributes/parent', and these
\* errors alone never stop the pipeline: it returns without the commit only
\* when a submitted batch produced an item error.
C12_MissingParents ==
    Layered =>
        /\ \A i \in 1..Len(reqs) :
              MissingParent(reqs[i]) =>
                  \E k \in 1..Len(resultItemErrors) :
                      /\ resultItemErrors[k].req.n = i
                      /\ ~resultItemErrors[k].req.placeholder
                      /\ isApiErrorResult(resultItemErrors[k].res)
                      /\ ApiErrorFields(resultItemErrors[k].res) =
                            [status |-> "404", code |-> "NotFound",
                             pointer |-> "/body/data/attributes/parent"]
        /\ (spc = "done" /\ ~HasCall("commit")) =>
              \E k \in 1..Len(resultItemErrors) :
                  BatchItemError(resultItemErrors[k])

\* With failFast set and a request of a missing parent reported, all three
\* layers are submitted, the scene is committed and the pipeline returns it.
C12_Witness ==
    /\ failFast
    /\ spc = "done"
    /\ sceneResult = "scene"
    /\ \E i \in 1..Len(reqs) : MissingParent(reqs[i])
    /\ \E p \in 1..Len(calls) : calls[p] = Call("createBatch", 2, 1, FALSE)
    /\ HasCall("commit")
    /\ Len(resultItemErrors) = 1

\* The requests handed to the createSceneItems call in progress: the layer,
\* or the placeholder requests of the retried item errors.
SubmittedRequests ==
    IF retrying
    THEN [i \in 1..Len(retryErrors) |->
            placeholderReq(resultItemErrors[retryErrors[i]])]
    ELSE layers[depth + 1]

\* The least k with k * size >= n.
CeilDiv(n, size) == CHOOSE k \in 0..n : k * size >= n /\ (k - 1) * size < n

\* C14: the requests of a createSceneItems call are split into non-empty
\* batches of at most BatchSize (500) operations whose concatenation, in
\* order, is the request list; n > 0 requests make ceil(n / BatchSize)
\* batches, the number createSceneItems returns as chunks.
C14_BatchSize ==
    spc \in {"submit", "poll"} =>
        /\ \A c \in 1..Len(batches) :
              Len(batches[c].ops) >= 1 /\ Len(batches[c].ops) <= BatchSize
        /\ flatten([c \in 1..Len(batches) |-> batches[c].ops])
              = SubmittedRequests
        /\ Len(SubmittedRequests) > 0
        /\ Len(batches) = CeilDiv(Len(SubmittedRequests), BatchSize)

\* A layer of three requests is split into a full batch and a batch of one.
C14_Witness ==
    /\ spc = "submit"
    /\ ~retrying
    /\ Len(layers[depth + 1]) = BatchSize + 1
    /\ Len(batches) = 2
    /\ Len(batches[1].ops) = BatchSize
    /\ Len(batches[2].ops) = 1

(***************************************************************************)
(* Properties of createSceneItemBatch and of the depth loop.               *)
(***************************************************************************)
\* The platform was served the exchange ev for chunk c of depth d.
WasServed(ev, d, c, ph) ==
    \E p \in 1..Len(served) :
        /\ served[p].ev = ev
        /\ served[p].depth = d
        /\ served[p].chunk = c
        /\ served[p].placeholder = ph

\* Every batch submitted for layer d was rejected.
LayerRejected(d) ==
    \A c \in 1..Len(arrayChunked(layers[d + 1], BatchSize)) :
        WasServed("rejected", d, c, FALSE)

\* C15: if every batch submitted for a layer is rejected, the pipeline
\* aborts the whole operation regardless of failFast: it submits no
\* further layer and does not commit the scene.
C15_EarlyAbort ==
    \A d \in 0..(Len(layers) - 1) :
        LayerRejected(d) =>
            /\ \A p \in 1..Len(served) :
                  served[p].ev = "submit" => served[p].depth <= d
            /\ ~HasCall("commit")

\* The indexes of the ApiErrors among the results of a polled batch.
ErrorIndexes(b) ==
    { j \in 1..Len(b.results) : isApiErrorResult(b.results[j]) }

\* The entries of sceneItemErrors for the operations of a polled batch.
EntriesOf(b) ==
    { k \in 1..Len(resultItemErrors) :
        \E j \in 1..Len(b.ops) : resultItemErrors[k].req = b.ops[j] }

\* sceneItemErrors holds exactly the ApiErrors of the polled batch b, each
\* with the request of its operation.
Aggregated(b) ==
    /\ Cardinality(EntriesOf(b)) = Cardinality(ErrorIndexes(b))
    /\ \A j \in ErrorIndexes(b) :
          \E k \in EntriesOf(b) :
              /\ resultItemErrors[k].req = b.ops[j]
              /\ resultItemErrors[k].res = b.results[j]

\* createSceneAndSceneItems returned, failFast was off and every declared
\* parent is supplied by a request.
ReturnedAllParents ==
    /\ spc = "done"
    /\ ~failFast
    /\ \A i \in 1..Len(reqs) : ~MissingParent(reqs[i])

\* C16 (as stated): with failFast off and every parent present, when a
\* polled batch of N operations resolves to a Batch whose results hold
\* exactly M ApiErrors, the returned sceneItemErrors holds exactly M entries
\* for that batch, the error of result j carrying the request of operation j.
C16_ErrorAggregation ==
    ReturnedAllParents =>
        \A p \in 1..Len(served) :
            served[p].ev = "batch" => Aggregated(served[p])

\* C16 (amended): the same for the batches of a layer's requests; the
\* ApiErrors of a placeholder retry batch are not added to sceneItemErrors.
C16_LayerErrorAggregation ==
    ReturnedAllParents =>
        \A p \in 1..Len(served) :
            served[p].ev = "batch" =>
                IF served[p].placeholder
                THEN EntriesOf(served[p]) = {}
                ELSE Aggregated(served[p])

\* A layer batch of two operations resolved with one ApiError, for its
\* second operation, and the pipeline returned.
C16_Witness ==
    /\ ReturnedAllParents
    /\ \E p \in 1..Len(served) :
          /\ served[p].ev = "batch"
          /\ ~served[p].placeholder
          /\ Len(served[p].ops) = 2
          /\ ErrorIndexes(served[p]) = {2}

\* The placeholder-creation operations submitted for request n: the
\* positions in served and in the batch.
PlaceholderSubmissions(n) ==
    { pj \in (1..Len(served)) \X (1..BatchSize) :
        /\ served[pj[1]].ev = "submit"
        /\ served[pj[1]].placeholder
        /\ pj[2] <= Len(served[pj[1]].ops)
        /\ served[pj[1]].ops[pj[2]].n = n }

\* The item error is a NotFound with the given source pointer.
NotFoundAt(e, pointer) ==
    /\ isApiErrorResult(e.res)
    /\ ApiErrorFields(e.res).code = "NotFound"
    /\ ApiErrorFields(e.res).pointer = pointer

\* No item is given two placeholder requests, each placeholder request is
\* the erring request without its source, and a parent NotFound gets none.
PlaceholderAtMostOnce ==
    /\ \A n \in 1..Len(reqs) :
          /\ Cardinality(PlaceholderSubmissions(n)) <= 1
          /\ \A pj \in PlaceholderSubmissions(n) :
                /\ served[pj[1]].ops[pj[2]].placeholder
                /\ \E k \in 1..Len(resultItemErrors) :
                      /\ NotFoundAt(resultItemErrors[k], SourcePartPointer)
                      /\ served[pj[1]].ops[pj[2]] =
                            [resultItemErrors[k].req EXCEPT !.placeholder = TRUE]
    /\ \A k \in 1..Len(resultItemErrors) :
          NotFoundAt(resultItemErrors[k], ParentPointer)
              => PlaceholderSubmissions(resultItemErrors[k].req.n) = {}

\* Every part NotFound of sceneItemErrors has its placeholder request.
PlaceholderForEach ==
    \A k \in 1..Len(resultItemErrors) :
        NotFoundAt(resultItemErrors[k], SourcePartPointer)
            => Cardinality(PlaceholderSubmissions(resultItemErrors[k].req.n)) = 1

\* C17 (as stated): an item error that is a NotFound on the source pointer
\* triggers exactly one placeholder-creation request for that item, which is
\* itself never retried; a NotFound on the parent pointer triggers none.
C17_PlaceholderRetry ==
    /\ PlaceholderAtMostOnce
    /\ spc = "done" => PlaceholderForEach

\* C17 (amended): the same when failFast is off; with failFast on, no
\* placeholder request is made at all.
C17_PlaceholderRetryUnlessFailFast ==
    /\ PlaceholderAtMostOnce
    /\ (spc = "done" /\ ~failFast) => PlaceholderForEach
    /\ failFast =>
          \A p \in 1..Len(served) : ~served[p].placeholder

\* The pipeline returned after a part NotFound got its placeholder request,
\* whose own result was a part NotFound again, while a parent NotFound of
\* the same batch got none.
C17_Witness ==
    /\ spc = "done"
    /\ ~failFast
    /\ \E k \in 1..Len(resultItemErrors) :
          /\ NotFoundAt(resultItemErrors[k], SourcePartPointer)
          /\ \E p \in 1..Len(served) :
                /\ served[p].ev = "batch"
                /\ served[p].placeholder
                /\ \E j \in 1..Len(served[p].ops) :
                      /\ served[p].ops[j].n = resultItemErrors[k].req.n
                      /\ served[p].results[j] = "partNotFound"
    /\ \E k \in 1..Len(resultItemErrors) :
          /\ NotFoundAt(resultItemErrors[k], ParentPointer)
          /\ BatchItemError(resultItemErrors[k])

\* The item errors of layer d that call for a placeholder.
RetriedErrors(d) ==
    { k \in 1..Len(resultItemErrors) :
        /\ NotFoundAt(resultItemErrors[k], SourcePartPointer)
        /\ \E j \in 1..Len(layers[d + 1]) :
              layers[d + 1][j].n = resultItemErrors[k].req.n }

\* The placeholder retry batches of depth d have all been submitted and
\* answered, and every accepted one has been polled to its end.
PlaceholdersDone(d) ==
    \A c \in 1..CeilDiv(Cardinality(RetriedErrors(d)), BatchSize) :
        /\ WasServed("submit", d, c, TRUE)
        /\ WasServed("accepted", d, c, TRUE) \/ WasServed("rejected", d, c, TRUE)
        /\ WasServed("accepted", d, c, TRUE) =>
              \/ WasServed("batch", d, c, TRUE)
              \/ WasServed("error", d, c, TRUE)
              \/ WasServed("pending", d, c, TRUE)

\* C18: the placeholder retry batch of depth d is submitted and polled to
\* completion before any batch of depth d + 1 is submitted and before the
\* commit update is issued.  (served and calls only grow, so the condition
\* holds in the state in which the later submission or the commit is made.)
C18_PlaceholderOrdering ==
    \A d \in 0..(Len(layers) - 1) :
        (\/ \E p \in 1..Len(served) :
               served[p].ev = "submit" /\ served[p].depth > d
         \/ HasCall("commit"))
            => PlaceholdersDone(d)

\* A layer-1 batch is submitted after the two placeholder batches of the
\* three part NotFound errors of layer 0 were polled.
C18_Witness ==
    /\ WasServed("submit", 1, 1, FALSE)
    /\ Cardinality(RetriedErrors(0)) = 3
    /\ WasServed("batch", 0, 1, TRUE)
    /\ WasServed("batch", 0, 2, TRUE)

(***************************************************************************)
(* Commit, scene-ready polling and camera fit.                             *)
(***************************************************************************)
CallPositions(op) == { p \in 1..Len(calls) : calls[p].op = op }

\* Every batch of layer d has been submitted and answered, and every
\* accepted one has been polled to its end.
LayerDone(d) ==
    \A c \in 1..Len(arrayChunked(layers[d + 1], BatchSize)) :
        /\ WasServed("submit", d, c, FALSE)
        /\ WasServed("accepted", d, c, FALSE) \/ WasServed("rejected", d, c, FALSE)
        /\ WasServed("accepted", d, c, FALSE) =>
              \/ WasServed("batch", d, c, FALSE)
              \/ WasServed("error", d, c, FALSE)
              \/ WasServed("pending", d, c, FALSE)

\* A getScene of pollSceneReady reported the scene ready.
ReadyObserved ==
    \E p \in 1..Len(served) :
        served[p].ev = "getScene" /\ served[p].results = << "ready" >>

\* C19: the commit update is issued only after every layer's batches have
\* finished polling, the camera-fit update only after pollSceneReady saw
\* the state 'ready', and on a run that returns the scene each is issued
\* exactly once, the commit first.  (calls and served only grow.)
C19_CommitFitSequencing ==
    /\ Cardinality(CallPositions("commit")) <= 1
    /\ Cardinality(CallPositions("fit")) <= 1
    /\ HasCall("commit") => \A d \in 0..(Len(layers) - 1) : LayerDone(d)
    /\ HasCall("fit") =>
          /\ ReadyObserved
          /\ \A q \in CallPositions("fit") :
                \E p \in CallPositions("commit") : p < q
    /\ (spc = "done" /\ sceneResult = "scene") =>
          HasCall("commit") /\ HasCall("fit")

\* The pipeline returned the scene after three layers, a commit, a getScene
\* that reported 'committing', one that reported 'ready', and the fit.
C19_Witness ==
    /\ spc = "done"
    /\ sceneResult = "scene"
    /\ Len(layers) = 3
    /\ scenePolls = 2
    /\ ReadyObserved
    /\ Cardinality(CallPositions("commit")) = 1
    /\ Cardinality(CallPositions("fit")) = 1

\* C20: if getScene does not report 'ready' within the attempt budget of
\* pollSceneReady, pollSceneReady throws and createSceneAndSceneItems
\* rejects without the camera-fit update, whatever failFast is.
C20_SceneReadyTimeoutFatal ==
    /\ scenePolls <= SceneReadyMaxAttempts + 1
    /\ scenePolls > SceneReadyMaxAttempts =>
          /\ spc = "threw"
          /\ sceneResult = "undefined"
          /\ ~HasCall("fit")
          /\ ~ReadyObserved

\* With failFast off, SceneReadyMaxAttempts getScene calls reported
\* 'committing' and the pipeline rejected.
C20_Witness ==
    /\ ~failFast
    /\ scenePolls > SceneReadyMaxAttempts
    /\ spc = "threw"
    /\ Cardinality({ p \in 1..Len(served) :
                       /\ served[p].ev = "getScene"
                       /\ served[p].results = << "committing" >> })
          = SceneReadyMaxAttempts

(***************************************************************************)
(* failFast and the reporting of errors.                                   *)
(***************************************************************************)
\* The depths at which the poll of a batch ended in a poll error.
PollErrorDepths ==
    { served[p].depth : p \in { q \in 1..Len(served) : served[q].ev = "error" } }

\* C21: with failFast set, the first batch poll that ends in a poll error
\* makes createSceneAndSceneItems throw instead of recording the error; no
\* later layer is submitted and no scene commit is issued.
C21_FailFastPollError ==
    (failFast /\ PollErrorDepths # {}) =>
        /\ spc = "threw"
        /\ sceneResult = "undefined"
        /\ \A k \in 1..Len(resultItemErrors) :
              resultItemErrors[k].res # "pollError"
        /\ \A p \in 1..Len(served) : \A d \in PollErrorDepths :
              served[p].ev = "submit" => served[p].depth <= d
        /\ ~HasCall("commit")

\* With failFast set, the second batch of layer 0 ends in a poll error
\* after the first resolved to a Batch.
C21_Witness ==
    /\ failFast
    /\ WasServed("batch", 0, 1, FALSE)
    /\ WasServed("error", 0, 2, FALSE)
    /\ Len(layers) = 2

\* The polled layer batches whose results hold an ApiError.
ItemFailures ==
    { p \in 1..Len(served) :
        /\ served[p].ev = "batch"
        /\ ~served[p].placeholder
        /\ ErrorIndexes(served[p]) # {} }

C23_TimeoutEscalation ==
    (/\ ppc = "done"
     /\ attempts > polling.maxAttempts
     /\ isQueuedJob(pollRes.res)
     /\ ~isStatusError(pollRes.res))
        => /\ createExport(PollOutcome).kind = "throws"
           /\ createExport(PollOutcome).id = JobId
           /\ createExport(PollOutcome).attempts = attempts

\* The layer batches rejected at submission.
RejectedBatches ==
    { p \in 1..Len(served) :
        served[p].ev = "rejected" /\ ~served[p].placeholder }

\* The returned errors list holds exactly the rejected batches once
\* createSceneAndSceneItems has returned, and never anything else.
ErrorsAreRejectedBatches ==
    /\ \A k \in 1..Len(resultBatchErrors) :
          /\ resultBatchErrors[k].res = "failure"
          /\ \E p \in RejectedBatches :
                served[p].ops = resultBatchErrors[k].ops
    /\ spc = "done" =>
          \A p \in RejectedBatches :
              \E k \in 1..Len(resultBatchErrors) :
                  resultBatchErrors[k].ops = served[p].ops

\* C24 (as stated): a batch rejected at submission is reported only in the
\* returned errors list and an item-level ApiError only in sceneItemErrors:
\* no operation of a rejected batch appears in sceneItemErrors and no
\* item-level error appears in errors.
C24_DistinctErrorPopulations ==
    /\ ErrorsAreRejectedBatches
    /\ \A p \in RejectedBatches : EntriesOf(served[p]) = {}

\* C24 (amended): errors holds the rejected batches and no item-level
\* error; when another batch of the same layer was accepted, every
\* operation of the rejected batch is also reported in sceneItemErrors, with
\* the failure of the batch as its error; when every batch of the layer was
\* rejected none is.
C24_RejectedBatchReporting ==
    /\ ErrorsAreRejectedBatches
    /\ \A p \in RejectedBatches :
          /\ \A k \in EntriesOf(served[p]) : resultItemErrors[k].res = "failure"
          /\ spc = "done" =>
                IF \E q \in 1..Len(served) :
                       /\ served[q].ev = "accepted"
                       /\ served[q].depth = served[p].depth
                       /\ ~served[q].placeholder
                THEN Cardinality(EntriesOf(served[p])) = Len(served[p].ops)
                ELSE EntriesOf(served[p]) = {}

\* The pipeline returned after the first batch of layer 0 was polled and
\* the second was rejected at submission.
C24_Witness ==
    /\ spc = "done"
    /\ WasServed("batch", 0, 1, FALSE)
    /\ WasServed("rejected", 0, 2, FALSE)
    /\ Len(resultBatchErrors) = 1
    /\ \E k \in 1..Len(resultItemErrors) : resultItemErrors[k].res = "failure"

(***************************************************************************)
(* The limiter.                                                            *)
(***************************************************************************)
\* The createBatch calls and the pollQueuedJob tasks in flight.
InFlight ==
    { c \in 1..Len(batches) :
        batches[c].sub = "inflight" \/ batches[c].pol = "inflight" }

\* The tasks handed to the limiter that have not started.
Queued ==
    { c \in 1..Len(batches) :
        batches[c].sub = "waiting" \/ batches[c].pol = "waiting" }

Min(a, b) == IF a <= b THEN a ELSE b

EntryMs(t, key) ==
    IF key \in DOMAIN t /\ t[key] # Undefined THEN t[key] ELSE 0

\* The delay of the largest threshold strictly below the attempt, else the
\* entry of threshold 0, else 0.
ExpectedBackoff(conf, attempt) ==
    IF ~conf.hasBackoff THEN 0
    ELSE LET below == { key \in DOMAIN conf.backoff : key < attempt }
         IN  IF below # {}
             THEN EntryMs(conf.backoff,
                          CHOOSE key \in below : \A x \in below : x <= key)
             ELSE EntryMs(conf.backoff, 0)

DefaultsArgs ==
    [intervalMs |-> 500, hasBackoff |-> TRUE, backoff |-> DefaultBackoffMs]

\* C26: the backoff of an attempt is the delay mapped to the largest
\* threshold strictly less than the attempt, or the threshold-0 entry if no
\* threshold is below it, or 0 without a table; threshold k takes effect
\* from attempt k+1 on (with intervalMs 500 and backoff[10] = 2000 the
\* delay is 2500 at attempt 11 but not at attempt 10).
C26_BackoffLookup ==
    /\ \A a \in 1..Len(delays) :
          delays[a] = pollingConf.intervalMs + ExpectedBackoff(pollingConf, a)
    /\ Len(delays) > 0 =>
          /\ getPollingDelay(11, DefaultsArgs) = 2500
          /\ getPollingDelay(10, DefaultsArgs) # 2500

\* With entries at the thresholds 1 and 2, the delay of attempt 2 is that
\* of threshold 1 and the delay of attempt 3 that of threshold 2.
C26_Witness ==
    /\ Len(delays) >= 3
    /\ pollingConf.hasBackoff
    /\ {1, 2} \subseteq DOMAIN pollingConf.backoff
    /\ delays[2] = pollingConf.intervalMs + 100
    /\ delays[3] = pollingConf.intervalMs + 300

\* C27 (as stated): for any backoff table the delay is non-decreasing in
\* the attempt number.
C27_BackoffMonotone ==
    \A a \in 1..(Len(delays) - 1) : delays[a] <= delays[a + 1]

\* The entries of the table do not decrease as the threshold grows.
NonDecreasingTable(t) ==
    \A j \in DOMAIN t : \A key \in DOMAIN t :
        j < key => EntryMs(t, j) <= EntryMs(t, key)

\* C27 (amended): for a backoff table whose entries do not decrease as the
\* threshold grows (and without a table) the delay is non-decreasing in the
\* attempt number.
C27_BackoffMonotoneForMonotoneTables ==
    (pollingConf # NoConf /\ NonDecreasingTable(pollingConf.backoff)) =>
        \A a \in 1..(Len(delays) - 1) : delays[a] <= delays[a + 1]

\* A table that grows with the threshold, and delays that grow with it.
C27_Witness ==
    /\ pollingConf # NoConf
    /\ pollingConf.hasBackoff
    /\ NonDecreasingTable(pollingConf.backoff)
    /\ Len(delays) = MaxDelayAttempt
    /\ delays[1] < delays[2]
    /\ delays[2] < delays[3]

\* The wait of the attempts 1..n: intervalMs plus backoff, summed.
RECURSIVE CumulativeWaitMs(_, _)
CumulativeWaitMs(conf, n) ==
    IF n = 0 THEN 0
    ELSE CumulativeWaitMs(conf, n - 1)
         + conf.intervalMs + ExpectedBackoff(conf, n)

\* C28: with a backoff table and a target duration of D > 0 seconds, the
\* computed maxAttempts N has a cumulative wait over the attempts 1..N of
\* at least D * 1000 ms and over the attempts 1..N-1 of less.
C28_MaxAttemptsWithTable ==
    (pollingConf # NoConf /\ pollingArgs.hasBackoff) =>
        /\ pollingConf.maxAttempts >= 1
        /\ CumulativeWaitMs(pollingConf, pollingConf.maxAttempts)
              >= pollingArgs.maxPollDurationSeconds * 1000
        /\ CumulativeWaitMs(pollingConf, pollingConf.maxAttempts - 1)
              < pollingArgs.maxPollDurationSeconds * 1000

\* Two attempts of 200 + 300 ms fill one second exactly.
C28_Witness ==
    /\ pollingConf # NoConf
    /\ pollingArgs.hasBackoff
    /\ pollingArgs.maxPollDurationSeconds = 1
    /\ pollingConf.maxAttempts = 2
    /\ CumulativeWaitMs(pollingConf, 2) = 1000

\* C29: without a backoff table getPollingConfiguration yields
\* maxAttempts = max(1, floor(maxPollDurationSeconds * 1000 / intervalMs)).
C29_MaxAttemptsWithoutTable ==
    (pollingConf # NoConf /\ ~pollingArgs.hasBackoff) =>
        pollingConf.maxAttempts =
            LET q == (pollingArgs.maxPollDurationSeconds * 1000)
                         \div pollingArgs.intervalMs
            IN  IF q > 1 THEN q ELSE 1

(***************************************************************************)
(* The connect timeout of poll().                                          *)
(***************************************************************************)
\* Every attempt the connect timer cancelled was caught as the client-side
\* failure and, within the budget, followed by another attempt.
TimeoutsAreRetried ==
    \A a \in timeouts :
        /\ a <= Len(fetchLog)
        /\ fetchLog[a] = ThrowsPlain
        /\ poll(fetchLog[a]).res = ClientFailureBody
        /\ isClientError(poll(fetchLog[a]).res)
        /\ a <= polling.maxAttempts => attempts > a

\* C30 (as stated): every fetch attempt of pollQueuedJob carries a request
\* timeout shorter than the poll interval; when it fires the request is
\* cancelled and the attempt counts as a retryable client-side failure, so
\* that no fetch is left pending once its timeout has passed.
C30_TimeoutShorterThanInterval ==
    /\ ppc = "fetch" =>
          /\ timer # "off"
          /\ ConnectTimeoutMs < polling.intervalMs
    /\ timer = "fired" => ppc # "fetch"
    /\ TimeoutsAreRetried

\* C30 (amended): every fetch attempt of pollQueuedJob starts a timer of
\* ConnectTimeoutMs, which is longer than the poll interval; when it fires
\* the cancel token handed to getQueuedJob is cancelled, and if getQueuedJob
\* passed the token to its request, as the batch polls of the pipeline do,
\* the attempt counts as a retryable client-side failure, so that a fetch
\* that never answers does not keep pollQueuedJob from returning.
C30_ConnectTimeout ==
    /\ [](/\ ppc = "fetch" => timer # "off"
          /\ ConnectTimeoutMs > polling.intervalMs
          /\ forwardsToken => timer # "fired"
          /\ TimeoutsAreRetried)
    /\ forwardsToken => <>(ppc = "done")

\* The first two requests never answered and were cancelled; the third
\* brought the resource.
C30_Witness ==
    /\ forwardsToken
    /\ ppc = "done"
    /\ timeouts = {1, 2}
    /\ Len(fetchLog) = 3
    /\ Resolved(fetchLog[3])
    /\ polling.intervalMs = BatchPollIntervalMs

(***************************************************************************)
(* What the pipeline returns and loses.                                    *)
(***************************************************************************)
\* The positions in `served` of the accepted createBatch calls made for
\* the layers.
AcceptedPositions ==
    { p \in 1..Len(served) :
        served[p].ev = "accepted" /\ ~served[p].placeholder }

\* C31: the `queued` list createSceneAndSceneItems returns holds the
\* accepted queued batch operations of all processed layers when
\* returnQueued is true and is empty when it is false.
C31_ReturnQueued ==
    spc = "done" =>
        IF returnQueued
        THEN /\ Len(Result.queued) = Cardinality(AcceptedPositions)
             /\ \A p \in AcceptedPositions :
                   \E i \in 1..Len(Result.queued) :
                       /\ Result.queued[i].ops = served[p].ops
                       /\ Result.queued[i].res = "queuedJob"
             /\ \A i \in 1..Len(Result.queued) :
                   \E p \in AcceptedPositions :
                       served[p].ops = Result.queued[i].ops
        ELSE Result.queued = << >>

\* Returned with returnQueued on: the accepted batches of two layers.
C31_Witness ==
    /\ spc = "done"
    /\ returnQueued
    /\ Len(Result.queued) = 3
    /\ \E p \in AcceptedPositions : served[p].depth = 0
    /\ \E p \in AcceptedPositions : served[p].depth = 1

(***************************************************************************)
(* arrayEq.                                                                *)
(***************************************************************************)
\* C32: arrayEq(a, b) is true exactly when a and b are both arrays of the
\* same length with equal (===) elements at every index; it is false when
\* they differ at a position or in length and when either is not an array.
C32_ArrayEq ==
    /\ arrRes # "none" =>
          /\ arrRes = "true" <=>
                /\ arrA.isArray
                /\ arrB.isArray
                /\ Len(arrA.items) = Len(arrB.items)
                /\ \A idx \in 1..Len(arrA.items) :
                      StrictEquals(arrA.items[idx], arrB.items[idx])
          /\ arrRes \in {"true", "false"}
          /\ (~arrA.isArray \/ ~arrB.isArray) => arrRes = "false"
    /\ arrRes # "none" =>
          /\ arrayEq(ArrayOf(<< Num(0), Num(1), Num(2) >>),
                     ArrayOf(<< Num(0), Num(1), Num(2) >>))
          /\ ~arrayEq(ArrayOf(<< Num(0), Num(1), Num(2) >>),
                      ArrayOf(<< Num(0), Num(2), Num(1) >>))
          /\ ~arrayEq(NoValue, NoValue)

\* Two arrays of two equal elements were found equal.
C32_Witness ==
    /\ arrRes = "true"
    /\ arrA.isArray
    /\ Len(arrA.items) = MaxArrayLen
    /\ arrA.items[1] # arrA.items[2]

(***************************************************************************)
(* Termination of the poller.                                              *)
(***************************************************************************)
\* C33: if every call of the fetch function eventually returns or throws,
\* pollQueuedJob terminates, after at least 1 and at most maxAttempts + 1
\* fetch calls, and the attempts it returns is the number of fetch calls
\* it made.
C33_Termination ==
    /\ <>(ppc = "done")
    /\ [](ppc = "done" =>
            /\ Len(fetchLog) >= 1
            /\ Len(fetchLog) <= polling.maxAttempts + 1
            /\ PollOutcome.attempts = Len(fetchLog))

\* Returned after maxAttempts + 1 fetch calls, the last of which brought
\* the resource.
C33_Witness ==
    /\ ppc = "done"
    /\ polling.maxAttempts = 2
    /\ Len(fetchLog) = 3
    /\ PollOutcome.attempts = 3
    /\ Resolved(fetchLog[3])

(***************************************************************************)
(* Exactly-once layering.                                                  *)
(***************************************************************************)
\* The places (layer, position) the request n holds in the depth layers.
LayerPlaces(n) ==
    { pl \in (1..Len(layers)) \X (1..Len(reqs)) :
        pl[2] <= Len(layers[pl[1]]) /\ layers[pl[1]][pl[2]].n = n }

\* The parent-NotFound item errors the pipeline built for the request n.
ParentErrorPlaces(n) ==
    { k \in 1..Len(resultItemErrors) :
        /\ resultItemErrors[k].req.n = n
        /\ isParentNotFoundError(resultItemErrors[k].res) }

\* The batches (layer, chunk, position) a layer's createSceneItems makes
\* that hold the request n.
BatchPlaces(n) ==
    { pl \in (1..Len(layers)) \X (1..Len(reqs)) \X (1..BatchSize) :
        LET ch == arrayChunked(layers[pl[1]], BatchSize)
        IN  /\ pl[2] <= Len(ch)
            /\ pl[3] <= Len(ch[pl[2]])
            /\ ch[pl[2]][pl[3]].n = n }

\* C34: for any request list (duplicate suppliedIds, a request that names
\* itself as parent and parent cycles included) the depth sort ends with
\* every request either in exactly one depth layer or in exactly one
\* parent-NotFound item error, never both and never neither; so no request
\* is in more than one regular batch and a request reported as
\* parent-NotFound is in none.
C34_ExactlyOnceLayering ==
    Layered =>
        /\ \A n \in 1..Len(reqs) :
              /\ Cardinality(LayerPlaces(n)) + Cardinality(ParentErrorPlaces(n)) = 1
              /\ Cardinality(BatchPlaces(n)) <= 1
              /\ ParentErrorPlaces(n) # {} => BatchPlaces(n) = {}
        /\ Len(layers) > 0 => batches = newBatches(layers[1])
        /\ Len(resultItemErrors) + Len(flatten(layers)) = Len(reqs)

\* Two roots with the same suppliedId, a child of that id, and a request
\* that names itself as parent.
C34_Witness ==
    /\ Layered
    /\ Len(reqs) = MaxReqs
    /\ reqs[1].suppliedId = "a" /\ reqs[1].parent = ""
    /\ reqs[2].suppliedId = "a" /\ reqs[2].parent = "a"
    /\ reqs[3].suppliedId = "b" /\ reqs[3].parent = "b"
    /\ Len(layers) = 2
    /\ ParentErrorPlaces(3) # {}

(***************************************************************************)
(* What becomes of the requests of the layers.                             *)
(***************************************************************************)
\* The operation of request n resolved to a created scene item.
ResolvedCreated(n) ==
    \E p \in 1..Len(served) :
        /\ served[p].ev = "batch"
        /\ ~served[p].placeholder
        /\ \E j \in 1..Len(served[p].ops) :
              served[p].ops[j].n = n /\ served[p].results[j] = "created"

InSceneItemErrors(n) ==
    \E k \in 1..Len(Result.sceneItemErrors) :
        Result.sceneItemErrors[k].req.n = n

InErrors(n) ==
    \E k \in 1..Len(Result.errors) :
        \E j \in 1..Len(Result.errors[k].ops) : Result.errors[k].ops[j].n = n

\* The polling of the batch of request n ran out of attempts with the job
\* still pending.
PollExhausted(n) ==
    \E p \in 1..Len(served) :
        /\ served[p].ev = "pending"
        /\ ~served[p].placeholder
        /\ \E j \in 1..Len(served[p].ops) : served[p].ops[j].n = n

\* C35: with failFast off, when createSceneAndSceneItems returns, every
\* request placed in a layer is accounted for: its operation resolved to a
\* created scene item, or it is in sceneItemErrors, or it belongs to a
\* batch listed in errors; also when the polling of its batch ended in a
\* poll error or ran out of attempts while still pending.
C35_NoSilentLoss ==
    (spc = "done" /\ ~failFast) =>
        \A d \in 1..Len(layers) : \A j \in 1..Len(layers[d]) :
            LET n == layers[d][j].n
            IN  ResolvedCreated(n) \/ InSceneItemErrors(n) \/ InErrors(n)

\* C36: whenever a sceneItemError has placeholderItem set, that reference
\* is the scene item created by the placeholder request derived from that
\* same error's request and not from another error's request, also when
\* the placeholder requests span several batches and one of them is
\* rejected at submission or fails polling.
C36_PlaceholderAlignment ==
    \A k \in 1..Len(resultItemErrors) :
        resultItemErrors[k].placeholderItem # Undefined =>
            resultItemErrors[k].placeholderItem = resultItemErrors[k].req.n

(***************************************************************************)
(* The stop under failFast.                                                *)
(***************************************************************************)
\* The ApiErrors the resolved batches of layer d hold: the position of the
\* exchange in `served` and of the operation in the batch.
LayerItemErrors(d) ==
    { e \in (1..Len(served)) \X (1..BatchSize) :
        /\ served[e[1]].ev = "batch"
        /\ served[e[1]].depth = d
        /\ ~served[e[1]].placeholder
        /\ e[2] <= Len(served[e[1]].results)
        /\ isApiErrorResult(served[e[1]].results[e[2]]) }

\* createSceneItemBatch of layer d returned with item errors: every batch
\* of the layer was accepted and polled to a Batch or to its last attempt,
\* and some operation resolved to an ApiError.
LayerYieldedErrors(d) ==
    /\ d < Len(layers)
    /\ \A c \in 1..Len(arrayChunked(layers[d + 1], BatchSize)) :
          /\ WasServed("accepted", d, c, FALSE)
          /\ WasServed("batch", d, c, FALSE) \/ WasServed("pending", d, c, FALSE)
    /\ LayerItemErrors(d) # {}

\* C37: with failFast set, once a layer yields an item-level error,
\* createSceneAndSceneItems submits no later layer and no placeholder
\* retry, issues neither the commit nor the camera-fit update, and returns
\* a result whose scene is undefined and whose sceneItemErrors holds the
\* errors collected so far.
C37_FailFastStopState ==
    failFast =>
        \A d \in 0..(Len(layers) - 1) :
            LayerYieldedErrors(d) =>
                /\ spc = "done"
                /\ depth = d
                /\ \A q \in 1..Len(served) :
                      served[q].ev = "submit" =>
                          served[q].depth <= d /\ ~served[q].placeholder
                /\ ~HasCall("commit")
                /\ ~HasCall("fit")
                /\ Result.scene = "undefined"
                /\ Len(Result.sceneItemErrors) =
                      Len(invalidParentItems(reqs))
                        + Cardinality(LayerItemErrors(d))
                /\ \A e \in LayerItemErrors(d) :
                      \E k \in 1..Len(Result.sceneItemErrors) :
                          /\ Result.sceneItemErrors[k].req = served[e[1]].ops[e[2]]
                          /\ Result.sceneItemErrors[k].res = served[e[1]].results[e[2]]
                /\ \A i \in 1..Len(invalidParentItems(reqs)) :
                      Result.sceneItemErrors[i].req.n = invalidParentItems(reqs)[i].n

\* With failFast set, layer 0 went through, layer 1 of three yielded a
\* part-NotFound error next to the error of a missing parent, and the
\* pipeline returned.
C37_Witness ==
    /\ failFast
    /\ spc = "done"
    /\ Len(layers) = 3
    /\ LayerYieldedErrors(1)
    /\ Len(invalidParentItems(reqs)) = 1
    /\ \E e \in LayerItemErrors(1) :
          served[e[1]].results[e[2]] = "partNotFound"

(***************************************************************************)
(* pollSceneReady.                                                         *)
(***************************************************************************)
\* The getScene calls pollSceneReady has made, the one in flight included.
GetSceneCalls == Len(served) + IF spc = "readyGetScene" THEN 1 ELSE 0

\* The state the k-th getScene call reported.
ReportedState(k) == served[k].results[1]

\* The first m getScene calls were answered and none reported 'ready'.
FirstNotReady(m) ==
    /\ Len(served) >= m
    /\ \A k \in 1..m : ReportedState(k) \notin {"ready", "rejected"}

ReadyEnded == spc \in {"readyReturned", "readyThrew", "readyRejected"}

EndsPolling(q, a) ==
    /\ served[q].ev \in {"batch", "error", "pending"}
    /\ served[q].depth = served[a].depth
    /\ served[q].chunk = served[a].chunk
    /\ served[q].placeholder = served[a].placeholder

\* C39: no batch of layer d+1 is submitted until every accepted batch of
\* layer d has finished polling: resolved to a Batch, ended in a poll
\* error, or exhausted its attempts.  (served only grows.)
C39_FullLayerBarrier ==
    \A p \in 1..Len(served) :
        (served[p].ev = "submit" /\ served[p].depth > 0) =>
            \A a \in 1..Len(served) :
                (served[a].ev = "accepted"
                   /\ served[a].depth = served[p].depth - 1) =>
                    /\ a < p
                    /\ \E q \in (a + 1)..(p - 1) : EndsPolling(q, a)

\* The two batches of layer 0 were polled concurrently, one to a Batch and
\* one to its last attempt, before the batch of layer 1 was submitted.
C39_Witness ==
    /\ parallelism = 2
    /\ \E p \in 1..Len(served) :
          /\ served[p].ev = "submit"
          /\ served[p].depth = 1
          /\ ~served[p].placeholder
          /\ p > 6
          /\ served[p - 2].ev = "pending" /\ served[p - 2].depth = 0
          /\ served[p - 1].ev = "batch" /\ served[p - 1].depth = 0
          /\ served[p - 2].chunk # served[p - 1].chunk

(***************************************************************************)
(* The outcomes of the submissions.                                        *)
(***************************************************************************)
\* The positions in `served` of the createBatch calls that ended as o: a
\* queued job, a rejection with a structured failure, another rejection.
SubmitAnswers(o) ==
    { p \in 1..Len(served) :
        /\ served[p].ev \in {"accepted", "rejected", "threw"}
        /\ served[p].results = << o >> }

\* Every batch of the createSceneItems call that made the exchange at
\* position p was submitted.
AllSubmitted(p) ==
    \A c \in 1..served[p].chunk :
        WasServed("submit", served[p].depth, c, served[p].placeholder)

\* C40: with failFast off, a createBatch call that fails with a structured
\* API failure is recorded as a rejected batch {ops, res: Failure} while
\* the other batches of the layer are still submitted, and a createBatch
\* call that fails otherwise is rethrown and makes the pipeline reject;
\* with failFast on every createBatch failure is rethrown.
C40_SubmissionOutcomes ==
    /\ \A p \in SubmitAnswers("failure") :
          IF failFast
          THEN spc = "threw"
          ELSE /\ served[p].ev = "rejected"
               /\ AllSubmitted(p)
               /\ (SubmitAnswers("error") = {} /\ spc # "threw") =>
                     \/ /\ spc = "submit"
                        /\ depth = served[p].depth
                        /\ retrying = served[p].placeholder
                        /\ batches[served[p].chunk].sub = "rejected"
                     \/ served[p].placeholder
                     \/ \E k \in 1..Len(resultBatchErrors) :
                           resultBatchErrors[k] =
                               [ops |-> served[p].ops, res |-> "failure"]
                     \/ /\ spc = "poll"
                        /\ depth = served[p].depth
                        /\ batches[served[p].chunk].sub = "rejected"
    /\ SubmitAnswers("error") # {} =>
          /\ spc = "threw"
          /\ sceneResult = "undefined"
    /\ failFast => resultBatchErrors = << >>
    /\ spc = "done" =>
          \A p \in SubmitAnswers("failure") :
              ~served[p].placeholder =>
                  /\ LayerDone(served[p].depth)
                  /\ \E k \in 1..Len(Result.errors) :
                        Result.errors[k] = [ops |-> served[p].ops, res |-> "failure"]

\* With failFast off the first batch of layer 0 was rejected with a
\* failure, the second was still submitted and accepted, and the pipeline
\* returned the scene with the rejected batch in errors.
C40_Witness ==
    /\ ~failFast
    /\ spc = "done"
    /\ sceneResult = "scene"
    /\ Len(Result.errors) = 1
    /\ \E p \in SubmitAnswers("failure") :
          /\ served[p].depth = 0
          /\ served[p].chunk = 1
          /\ ~served[p].placeholder
          /\ WasServed("accepted", 0, 2, FALSE)
====
